---- MODULE Spec2Model ----
(***************************************************************************)
(* Demand lifecycle, audit trail and backup subsystem of server.js (the    *)
(* express + sqlite3 backend that starts at line 1633 of src/server.js).   *)
(*                                                                         *)
(* JavaScript values are modelled structurally:                            *)
(*   - a value that may be JSON text is a record [lvl, kind, items]: the   *)
(*     base value (kind, items) wrapped in lvl layers of JSON.stringify.   *)
(*     lvl = 0 is the base value itself; kind "text" is a string that is   *)
(*     not JSON (JSON.parse throws on it).                                 *)
(*   - scalar strings are TLA+ strings, UNDEF standing for undefined and   *)
(*     NULLV for null / SQL NULL; numeric ids use 0 for undefined / NULL.  *)
(***************************************************************************)
EXTENDS Integers, Sequences, FiniteSets, TLC

\* ---------------------------------------------------------------- bounds
MaxLvl == 2          \* deepest nesting of JSON.stringify in an input value
MaxItem == 2         \* list items are drawn from 1..MaxItem (user ids, weekdays, file refs)
MaxListLen == 2      \* longest list in an input value
MaxNameLen == 3      \* longest nomeDemanda of an input payload

UNDEF == "<undefined>"
NULLV == "<null>"

\* ------------------------------------------------------- JSON value model
JVal(l, k, i) == [lvl |-> l, kind |-> k, items |-> i]
Absent == JVal(0, "absent", <<>>)
JNull == JVal(0, "null", <<>>)
JNum == JVal(0, "num", <<>>)
JObj == JVal(0, "obj", <<>>)
JText == JVal(0, "text", <<>>)
JList(s) == JVal(0, "list", s)
EmptyList == JList(<<>>)

\* typeof v === 'string'
IsString(v) == v.lvl > 0 \/ v.kind = "text"

\* Array.isArray(v)
IsArray(v) == v.lvl = 0 /\ v.kind = "list"

\* JSON.parse(v) succeeds (v is a string holding JSON text)
Parses(v) == v.lvl > 0

\* JSON.parse(v), for a string that parses
JSONparse(v) == [v EXCEPT !.lvl = @ - 1]

\* JSON.stringify(v), for a value other than undefined
JSONstringify(v) == [v EXCEPT !.lvl = @ + 1]

\* Boolean(x) over the JavaScript literals used for isRotina
Falsy == {"undefined", "null", "false", "0", "''"}
JsBoolean(x) == IF x \in Falsy THEN "false" ELSE "true"

\* ------------------------------------------------------------ normalizer
ListFields == {"diasSemana", "atribuidos", "anexosCriacao", "anexosResolucao",
               "comentariosUsuarios"}

NullDemanda == [isNull |-> TRUE]

\* one of the five "Garante que ... seja um array" blocks
NormalizarCampo(v) ==
    IF IsString(v)
    THEN IF Parses(v) THEN JSONparse(v) ELSE EmptyList
    ELSE IF ~IsArray(v) THEN EmptyList ELSE v

normalizarDadosDemanda(demanda) ==
    IF demanda = NullDemanda THEN demanda
    ELSE [f \in DOMAIN demanda |->
            IF f \in ListFields THEN NormalizarCampo(demanda[f])
            ELSE IF f = "isRotina" THEN JsBoolean(demanda[f])
            ELSE demanda[f]]

\* ------------------------------------------------------------- input sets
ItemSeqs == UNION {[1..n -> 1..MaxItem] : n \in 0..MaxListLen}

BaseVals == {JNull, JNum, JObj, JText} \cup {JList(s) : s \in ItemSeqs}

\* every value a JSON body or a TEXT column can hold for a list field
JsonVals == {Absent} \cup {[b EXCEPT !.lvl = l] : b \in BaseVals, l \in 0..MaxLvl}

IsRotinaVals == {"undefined", "null", "false", "true", "0", "1", "''", "'false'"}

\* ------------------------------------------------------------------ state
VARIABLES
    demandas,     \* table demandas: function from the ids stored to their rows
    seq,          \* sqlite_sequence of demandas (AUTOINCREMENT high-water mark)
    auditoria,    \* table auditoria: sequence of rows, in insertion order
    backups,      \* files of backupDir: set of [name, tipo, data, demandas]
    notificacoes, \* table notificacoes: sequence of rows, in insertion order
    jobs,         \* statements and backups issued whose callbacks are still to run
    running,      \* the process has not exited
    falha,        \* the side effects that fail at present
    emitidos,     \* the notifications pushed to the live sink, in order
    lote,         \* the last batch import: its records, counters and progress
    now,          \* the clock in milliseconds (Date.now(), CURRENT_TIMESTAMP)
    req,          \* the request handled last
    resp,         \* the response sent to it
    reqs,         \* number of requests handled
    nd,           \* normalizer harness: the object handed to normalizarDadosDemanda
    nprev,        \* normalizer harness: the object before the last call
    ncalls        \* normalizer harness: number of calls made

vars == <<demandas, seq, auditoria, backups, notificacoes, jobs, running, falha,
          emitidos, lote, now, req, resp, reqs, nd, nprev, ncalls>>
asyncVars == <<jobs, running, lote, falha, emitidos>>
storeVars == <<demandas, seq, auditoria, backups, notificacoes, jobs, running, falha,
               emitidos, lote, now, req, resp, reqs>>
normVars == <<nd, nprev, ncalls>>

NoReq == [op |-> "none"]
NoLote ==
    [op |-> "none", ativo |-> FALSE, respondido |-> FALSE, items |-> <<>>,
     rnds |-> <<>>, t |-> 0, tc |-> 0, feitos |-> 0, successCount |-> 0,
     errorCount |-> 0, errors |-> <<>>, results |-> <<>>, tx |-> FALSE, salvo |-> <<>>]
NoResp == [code |-> 0]

InitStore ==
    /\ demandas = <<>>
    /\ seq = 0
    /\ auditoria = <<>>
    /\ backups = {}
    /\ notificacoes = <<>>
    /\ jobs = <<>>
    /\ running = TRUE
    /\ falha = {}
    /\ emitidos = <<>>
    /\ lote = NoLote
    /\ now = 1
    /\ req = NoReq
    /\ resp = NoResp
    /\ reqs = 0

\* ------------------------------------------- normalizer as a pure function
MaxNormCalls == 2

\* objects handed to the normalizer: diasSemana ranges over every value,
\* the other list fields over one value of each branch of the code
FewVals == {Absent, JNum, JList(<<1>>), JSONstringify(JList(<<1>>)),
            JSONstringify(JNum), JText}

NormInputs ==
    {[diasSemana |-> a, atribuidos |-> b, anexosCriacao |-> c,
      anexosResolucao |-> c, comentariosUsuarios |-> b, isRotina |-> r,
      nomeDemanda |-> UNDEF] :
        a \in JsonVals, b \in FewVals, c \in {Absent, JSONstringify(JNull)},
        r \in IsRotinaVals}
    \cup {NullDemanda}

InitNorm ==
    /\ InitStore
    /\ nd \in NormInputs
    /\ nprev = nd
    /\ ncalls = 0

NormalizeStep ==
    /\ ncalls < MaxNormCalls
    /\ nprev' = nd
    /\ nd' = normalizarDadosDemanda(nd)
    /\ ncalls' = ncalls + 1
    /\ UNCHANGED storeVars

SpecNorm == InitNorm /\ [][NormalizeStep]_vars

\* C1: normalizarDadosDemanda is idempotent: a second call on the result of
\* a first call returns that result unchanged, for every content of the list
\* fields (list, text decoding to a list or to a non-list, undecodable text,
\* absent).
C1_Idempotent == ncalls = 2 => nd = nprev

\* C2: after normalizarDadosDemanda every one of the five list fields of a
\* non-null record is a list.
C2_ListsAfterNormalize ==
    (ncalls >= 1 /\ nd # NullDemanda) => \A f \in ListFields : IsArray(nd[f])

\* ======================================================================
\* The demand store
\* ======================================================================
MaxReqs == 2         \* requests handled in one behaviour
MaxNow == 2          \* last value of the clock
MaxBatch == 2        \* longest list of a batch import / restore payload
MaxAuto == 11        \* most snapshot files of the timer in the directory at the start
MaxSinais == 2       \* SIGINT signals received in one behaviour

\* usuarios holds the rows of inserirUsuariosPadrao; the model keeps the ids
\* 1..MaxItem of them
Usuarios == 1..MaxItem

\* --------------------------------------------------------- scalar values
\* !x for a string-valued property
StrFalsy(x) == x \in {UNDEF, NULLV, ""}

\* a parameter bound to a statement: undefined is bound as NULL
BindS(x) == IF x = UNDEF THEN NULLV ELSE x

\* nomeDemanda is a sequence of characters
Chars == {" ", "a"}
NameStrings == UNION {[1..n -> Chars] : n \in 0..MaxNameLen}
UndefName == <<UNDEF>>
NullName == <<NULLV>>
BindName(x) == IF x = UndefName THEN NullName ELSE x

RECURSIVE TrimStart(_)
TrimStart(s) == IF s # <<>> /\ Head(s) = " " THEN TrimStart(Tail(s)) ELSE s

RECURSIVE TrimEnd(_)
TrimEnd(s) ==
    IF s # <<>> /\ s[Len(s)] = " " THEN TrimEnd(SubSeq(s, 1, Len(s) - 1)) ELSE s

\* String.prototype.trim
Trim(s) == TrimEnd(TrimStart(s))

\* x || [] for a value of a list field
OrEmptyList(v) == IF v \in {Absent, JNull} THEN EmptyList ELSE v

\* JSON.stringify(v) bound to a statement (undefined stays undefined -> NULL)
BindJson(v) == IF v = Absent THEN JNull ELSE JSONstringify(v)

\* `DEM-${Date.now()}`
GerarTag(t) == "DEM-" \o ToString(t)

\* `DEM-IMP-${Date.now()}-${index}`
GerarTagImp(t, index) == "DEM-IMP-" \o ToString(t) \o "-" \o ToString(index)

\* ------------------------------------------------------------ validation
MinNomeLen == 3

validarDemandaLax(body) ==
    IF body.nomeDemanda \in {UndefName, NullName, <<>>}
    THEN [code |-> 400, error |-> "Nome da demanda é obrigatório"]
    ELSE IF StrFalsy(body.categoria)
    THEN [code |-> 400, error |-> "Categoria é obrigatória"]
    ELSE IF StrFalsy(body.dataLimite)
    THEN [code |-> 400, error |-> "Data limite é obrigatória"]
    ELSE [code |-> 0, error |-> ""]

\* the middleware: code 0 stands for next()
validarDemanda(body) ==
    IF \/ body.nomeDemanda \in {UndefName, NullName, <<>>}
       \/ Len(Trim(body.nomeDemanda)) < MinNomeLen
    THEN [code |-> 400, error |-> "Nome da demanda é obrigatório"]
    ELSE IF StrFalsy(body.categoria)
    THEN [code |-> 400, error |-> "Categoria é obrigatória"]
    ELSE IF StrFalsy(body.dataLimite)
    THEN [code |-> 400, error |-> "Data limite é obrigatória"]
    ELSE [code |-> 0, error |-> ""]

\* ----------------------------------------------------------- sqlite layer
Max(S) == CHOOSE x \in S : \A y \in S : y <= x

\* the row that a statement leaves in table tbl under key id
Put(tbl, id, row) ==
    [i \in DOMAIN tbl \cup {id} |-> IF i = id THEN row ELSE tbl[i]]

Remove(tbl, ids) == [i \in DOMAIN tbl \ ids |-> tbl[i]]

\* columns declared NOT NULL without a default
NotNullNoDefault(row) ==
    \/ row.funcionarioId = 0
    \/ row.categoria = NULLV
    \/ row.prioridade = NULLV
    \/ row.dataLimite = NULLV

\* every NOT NULL column, those with a default included
NotNullViolated(row) ==
    \/ NotNullNoDefault(row)
    \/ row.status = NULLV
    \/ row.dataCriacao = 0

\* ids of the rows, other than id, that hold tag t (tag TEXT UNIQUE; NULLs
\* never conflict)
TagConflicts(tbl, id, t) ==
    IF t = NULLV THEN {} ELSE {i \in DOMAIN tbl : i # id /\ tbl[i].tag = t}

\* INSERT INTO demandas without an id: AUTOINCREMENT picks the id
SqlInsert(tbl, sq, row) ==
    LET newId == Max({sq} \cup DOMAIN tbl) + 1 IN
    IF NotNullViolated(row) \/ TagConflicts(tbl, newId, row.tag) # {}
    THEN [err |-> TRUE, tbl |-> tbl, seq |-> sq, lastID |-> 0]
    ELSE [err |-> FALSE, tbl |-> Put(tbl, newId, [row EXCEPT !.id = newId]),
          seq |-> newId, lastID |-> newId]

\* UPDATE demandas SET ... WHERE id = ?
SqlUpdate(tbl, id, row) ==
    IF id \notin DOMAIN tbl THEN [err |-> FALSE, tbl |-> tbl]
    ELSE IF NotNullViolated(row) \/ TagConflicts(tbl, id, row.tag) # {}
    THEN [err |-> TRUE, tbl |-> tbl]
    ELSE [err |-> FALSE, tbl |-> Put(tbl, id, [row EXCEPT !.id = id])]

\* ------------------------------------------------------------- audit log
\* JSON.stringify(x || {}): <<>> is the object without properties
SnapshotKeepNull(x) == [json |-> x]

Snapshot(x) == [json |-> IF x = NullDemanda THEN <<>> ELSE x]

\* the audit row of a DELETE is not written
registrarAuditoriaSemDelete(log, acao, tabela, registroId, dadosAntigos, dadosNovos, usuarioId) ==
    IF acao = "DELETE" THEN log
    ELSE Append(log, [acao |-> acao, tabela |-> tabela, registroId |-> registroId,
                      dadosAntigos |-> Snapshot(dadosAntigos),
                      dadosNovos |-> Snapshot(dadosNovos),
                      usuarioId |-> usuarioId])

\* a log that keeps only the row of the last operation on each record
registrarAuditoriaUltima(log, acao, tabela, registroId, dadosAntigos, dadosNovos, usuarioId) ==
    LET outros == SelectSeq(log, LAMBDA r : r.registroId # registroId) IN
    Append(outros, [acao |-> acao, tabela |-> tabela, registroId |-> registroId,
                    dadosAntigos |-> Snapshot(dadosAntigos),
                    dadosNovos |-> Snapshot(dadosNovos),
                    usuarioId |-> usuarioId])

registrarAuditoria(log, acao, tabela, registroId, dadosAntigos, dadosNovos, usuarioId) ==
    IF "auditoria" \in falha
    THEN \* the INSERT fails: the callback logs the error
         log
    ELSE Append(log, [acao |-> acao, tabela |-> tabela, registroId |-> registroId,
                      dadosAntigos |-> Snapshot(dadosAntigos),
                      dadosNovos |-> Snapshot(dadosNovos),
                      usuarioId |-> usuarioId])

\* ---------------------------------------------------------------- backups
\* the file criarBackup(tipo) writes at time t when it reads table tbl; a
\* file of the same name is overwritten
criarBackup(files, tipo, t, tbl) ==
    LET name == <<"backup", tipo, t>> IN
    IF "backup" \in falha
    THEN \* db.all or fs.writeFile fails: the error is logged
         files
    ELSE
    {b \in files : b.name # name}
        \cup {[name |-> name, versao |-> "1.0.0", data |-> t, tipo |-> tipo,
               totalDemandas |-> Cardinality(DOMAIN tbl),
               demandas |-> [i \in DOMAIN tbl |-> normalizarDadosDemanda(tbl[i])]]}

\* ------------------------------------------------------- request payloads
\* a JSON body: every property the handlers read, with the markers of
\* "not in the body"
EmptyBody ==
    [id |-> 0, funcionarioId |-> 0, nomeDemanda |-> UndefName,
     categoria |-> UNDEF, prioridade |-> UNDEF, dataLimite |-> UNDEF,
     status |-> UNDEF, tag |-> UNDEF, isRotina |-> "undefined",
     dataCriacao |-> 0, diasSemana |-> Absent, atribuidos |-> Absent,
     anexosCriacao |-> Absent, anexosResolucao |-> Absent,
     comentariosUsuarios |-> Absent]

\* a body with every column that is NOT NULL in the table
FullBody ==
    [EmptyBody EXCEPT !.funcionarioId = 1, !.nomeDemanda = <<"a", "a", "a">>,
                      !.categoria = "manutencao", !.prioridade = "alta",
                      !.dataLimite = "2025-01-01"]

\* FullBody with one property changed, or one property added
CreateBodies ==
    {[FullBody EXCEPT !.nomeDemanda = n] : n \in NameStrings \cup {UndefName}}
    \cup {[FullBody EXCEPT !.categoria = UNDEF],
          [FullBody EXCEPT !.dataLimite = UNDEF],
          [FullBody EXCEPT !.prioridade = UNDEF],
          [FullBody EXCEPT !.status = "aprovada"],
          [FullBody EXCEPT !.tag = "T1"],
          [FullBody EXCEPT !.tag = GerarTag(MaxNow)],
          [FullBody EXCEPT !.funcionarioId = 2, !.isRotina = "true"],
          [FullBody EXCEPT !.isRotina = "'false'"],
          [FullBody EXCEPT !.isRotina = "0"]}
    \cup {[FullBody EXCEPT !.atribuidos = v] :
            v \in {JList(<<1>>), JList(<<2>>), JSONstringify(JList(<<1, 2>>)),
                   JSONstringify(JNum)}}
    \cup {[FullBody EXCEPT !.diasSemana = v] :
            v \in {JList(<<1>>), JSONstringify(JSONstringify(JList(<<2>>))), JText}}
    \cup {[FullBody EXCEPT !.anexosCriacao = JList(<<1>>)],
          [FullBody EXCEPT !.anexosResolucao = JList(<<1>>)],
          [FullBody EXCEPT !.comentariosUsuarios = JList(<<1>>)],
          [FullBody EXCEPT !.comentariosUsuarios = JSONstringify(JNull)]}

\* ------------------------------------------------- POST /api/demandas
\* the parameters of the INSERT, as the row they make (columns that the
\* statement leaves out take their DEFAULT)
CreateParams(dn, t) ==
    [id |-> 0,
     funcionarioId |-> dn.funcionarioId,
     nomeDemanda |-> BindName(dn.nomeDemanda),
     categoria |-> BindS(dn.categoria),
     prioridade |-> BindS(dn.prioridade),
     dataCriacao |-> IF dn.dataCriacao = 0 THEN t ELSE dn.dataCriacao,
     dataLimite |-> BindS(dn.dataLimite),
     status |-> IF StrFalsy(dn.status) THEN "pendente" ELSE dn.status,
     isRotina |-> IF dn.isRotina = "true" THEN "1" ELSE "0",
     diasSemana |-> BindJson(dn.diasSemana),
     tag |-> BindS(dn.tag),
     comentarioGestor |-> <<>>,
     atribuidos |-> BindJson(dn.atribuidos),
     anexosCriacao |-> BindJson(dn.anexosCriacao),
     anexosResolucao |-> JSONstringify(EmptyList),
     comentariosUsuarios |-> BindJson(OrEmptyList(dn.comentariosUsuarios)),
     dataAtualizacao |-> t,
     criadoPor |-> dn.funcionarioId,
     atualizadoPor |-> 0]

\* the tag the handler inserts
CreateTag(dn, t) == IF StrFalsy(dn.tag) THEN GerarTag(t) ELSE dn.tag

\* res.json of a successful create
CreateResponse(dn, lastID, params) ==
    [code |-> 200, success |-> TRUE,
     demanda |-> [dn EXCEPT !.id = IF dn.id # 0 THEN dn.id ELSE lastID,
                            !.dataCriacao = params.dataCriacao]]

ErrorResponse(code, error) == [code |-> code, success |-> FALSE, error |-> error]

\* an answer that reports the failure of a side effect to the caller
RespondFalhaPropagada(r, rq) ==
    /\ resp' = IF falha # {} /\ r.code = 200
               THEN ErrorResponse(500, "SQLITE_ERROR")
               ELSE r
    /\ req' = rq
    /\ reqs' = reqs + 1
    /\ UNCHANGED <<notificacoes, asyncVars, now, normVars>>

Respond(r, rq) ==
    /\ resp' = r
    /\ req' = rq
    /\ reqs' = reqs + 1
    /\ UNCHANGED <<notificacoes, asyncVars, now, normVars>>

\* a response sent from a setTimeout(..., 1000) callback: the clock has
\* moved on by then
RespondLater(r, rq) ==
    /\ resp' = r
    /\ req' = rq
    /\ reqs' = reqs + 1
    /\ now' = now + 1
    /\ UNCHANGED <<notificacoes, asyncVars, normVars>>

CreateReq(body) ==
    LET v == validarDemanda(body)
        dn0 == normalizarDadosDemanda(body)
        dn == [dn0 EXCEPT !.tag = CreateTag(dn0, now)]
        params == CreateParams(dn, now)
        r == SqlInsert(demandas, seq, params)
        rq == [op |-> "create", body |-> body]
    IN
    /\ reqs < MaxReqs
    /\ IF v.code # 0
       THEN /\ Respond(ErrorResponse(v.code, v.error), rq)
            /\ UNCHANGED <<demandas, seq, auditoria, backups>>
       ELSE IF r.err
       THEN /\ Respond(ErrorResponse(500, "SQLITE_CONSTRAINT"), rq)
            /\ UNCHANGED <<demandas, seq, auditoria, backups>>
       ELSE /\ demandas' = r.tbl
            /\ seq' = r.seq
            /\ auditoria' = registrarAuditoria(auditoria, "CREATE", "demandas",
                                r.lastID, NullDemanda, dn, dn.funcionarioId)
            /\ Respond(CreateResponse(dn, r.lastID, params), rq)
            /\ UNCHANGED backups

\* the bodies of the store specification: one body for each outcome of the
\* handler and each shape of a stored list
CoreBodies ==
    {FullBody,
     [FullBody EXCEPT !.nomeDemanda = <<" ", "a", "a">>],
     [FullBody EXCEPT !.prioridade = UNDEF],
     [FullBody EXCEPT !.status = "aprovada"],
     [FullBody EXCEPT !.tag = "T1"],
     [FullBody EXCEPT !.funcionarioId = 2, !.isRotina = "true",
                      !.diasSemana = JList(<<1>>)],
     [FullBody EXCEPT !.atribuidos = JList(<<1>>)],
     [FullBody EXCEPT !.atribuidos = JSONstringify(JNum)],
     [FullBody EXCEPT !.anexosCriacao = JList(<<1>>),
                      !.anexosResolucao = JList(<<1>>)],
     [FullBody EXCEPT !.comentariosUsuarios = JSONstringify(JSONstringify(JList(<<1>>)))]}

Create == \E body \in CoreBodies : CreateReq(body)

CreateAny == \E body \in CreateBodies : CreateReq(body)

\* ------------------------------------------------- GET /api/demandas
GetDemandas ==
    /\ reqs < MaxReqs
    /\ Respond([code |-> 200, success |-> TRUE,
                rows |-> [i \in DOMAIN demandas |-> normalizarDadosDemanda(demandas[i])]],
               [op |-> "list"])
    /\ UNCHANGED <<demandas, seq, auditoria, backups>>

\* ------------------------------------------------------------ the clock
Tick ==
    /\ now < MaxNow
    /\ now' = now + 1
    /\ UNCHANGED <<demandas, seq, auditoria, backups, notificacoes, asyncVars, req,
                   resp, reqs, normVars>>

\* ids a request can name: every stored id and one id that is not stored
IdsToTry == DOMAIN demandas \cup {Max({seq} \cup DOMAIN demandas) + 1}

\* JavaScript truthiness of an isRotina value
IsTruthy(x) == x \notin Falsy

\* a property is in the object (it is not undefined)
Defined(f, v) ==
    IF f \in ListFields THEN v # Absent
    ELSE IF f \in {"id", "funcionarioId", "dataCriacao"} THEN v # 0
    ELSE IF f = "nomeDemanda" THEN v # UndefName
    ELSE IF f = "isRotina" THEN v # "undefined"
    ELSE v # UNDEF

\* { ...a, ...b } over the properties of a row
Spread(a, b) ==
    [f \in DOMAIN a |-> IF f \in DOMAIN b /\ Defined(f, b[f]) THEN b[f] ELSE a[f]]

\* ------------------------------------------------- PUT /api/demandas/:id
UpdateBodies ==
    {[EmptyBody EXCEPT !.status = "aprovada"],
     [EmptyBody EXCEPT !.categoria = "ti", !.funcionarioId = 2],
     [EmptyBody EXCEPT !.tag = "T1"],
     [EmptyBody EXCEPT !.atribuidos = JList(<<2>>), !.isRotina = "true"]}

\* dadosCompletos: the stored row overwritten by the normalized body, then
\* stamped
DadosCompletos(existente, d, t) ==
    [Spread(existente, normalizarDadosDemanda(d))
        EXCEPT !.dataAtualizacao = t, !.atualizadoPor = d.funcionarioId]

\* the parameters of the UPDATE, as the row they make (id, dataCriacao and
\* criadoPor are not in the SET list)
UpdateParams(existente, dc) ==
    [id |-> existente.id,
     funcionarioId |-> dc.funcionarioId,
     nomeDemanda |-> BindName(dc.nomeDemanda),
     categoria |-> BindS(dc.categoria),
     prioridade |-> BindS(dc.prioridade),
     dataCriacao |-> existente.dataCriacao,
     dataLimite |-> BindS(dc.dataLimite),
     status |-> BindS(dc.status),
     isRotina |-> IF IsTruthy(dc.isRotina) THEN "1" ELSE "0",
     diasSemana |-> BindJson(dc.diasSemana),
     tag |-> BindS(dc.tag),
     comentarioGestor |-> dc.comentarioGestor,
     atribuidos |-> BindJson(dc.atribuidos),
     anexosCriacao |-> BindJson(dc.anexosCriacao),
     anexosResolucao |-> BindJson(dc.anexosResolucao),
     comentariosUsuarios |-> BindJson(OrEmptyList(dc.comentariosUsuarios)),
     dataAtualizacao |-> dc.dataAtualizacao,
     criadoPor |-> existente.criadoPor,
     atualizadoPor |-> dc.atualizadoPor]

\* a missing row answered as a success
NotFoundAnsweredOk == [code |-> 200, success |-> TRUE]

NotFound == ErrorResponse(404, "Demanda não encontrada")

UpdateReq(id, d) ==
    LET rq == [op |-> "update", id |-> id, body |-> d] IN
    /\ reqs < MaxReqs
    /\ IF id \notin DOMAIN demandas
       THEN /\ Respond(NotFound, rq)
            /\ UNCHANGED <<demandas, seq, auditoria, backups>>
       ELSE LET existente == demandas[id]
                dc == DadosCompletos(existente, d, now)
                r == SqlUpdate(demandas, id, UpdateParams(existente, dc))
            IN
            IF r.err
            THEN /\ Respond(ErrorResponse(500, "SQLITE_CONSTRAINT"), rq)
                 /\ UNCHANGED <<demandas, seq, auditoria, backups>>
            ELSE /\ demandas' = r.tbl
                 /\ auditoria' = registrarAuditoria(auditoria, "UPDATE", "demandas",
                                    id, existente, dc, d.funcionarioId)
                 /\ backups' = IF d.status \in {"aprovada", "reprovada"}
                               THEN criarBackup(backups, "status_change", now, r.tbl)
                               ELSE backups
                 /\ Respond([code |-> 200, success |-> TRUE, demanda |-> dc], rq)
                 /\ UNCHANGED seq

Update == \E id \in IdsToTry, d \in UpdateBodies : UpdateReq(id, d)

\* ---------------------------------------------- DELETE /api/demandas/:id
DeleteReq(id, usuarioId) ==
    LET rq == [op |-> "delete", id |-> id, usuarioId |-> usuarioId] IN
    /\ reqs < MaxReqs
    /\ IF id \notin DOMAIN demandas
       THEN /\ Respond(NotFound, rq)
            /\ UNCHANGED <<demandas, seq, auditoria, backups>>
       ELSE LET tbl == Remove(demandas, {id}) IN
            /\ demandas' = tbl
            /\ auditoria' = registrarAuditoria(auditoria, "DELETE", "demandas",
                               id, demandas[id], NullDemanda, usuarioId)
            /\ backups' = criarBackup(backups, "delete", now, tbl)
            /\ Respond([code |-> 200, success |-> TRUE], rq)
            /\ UNCHANGED seq

Delete == \E id \in IdsToTry : DeleteReq(id, IF id = 1 THEN 0 ELSE 1)

\* ------------------------------- POST /api/demandas/:id/extend-deadline
\* the note alone, the previous comment dropped
NotaPrazoSubstitui(comentarioAtual, t, motivo) ==
    <<<<"Prazo estendido", t, motivo>>>>

\* `${comentarioAtual}\n[Prazo estendido em ${data}: ${motivo}]`: the comment
\* is the sequence of the notes appended to it
NotaPrazo(comentarioAtual, t, motivo) ==
    Append(comentarioAtual, <<"Prazo estendido", t, motivo>>)

ExtendDeadlineReq(id, novaDataLimite, motivo, usuarioId) ==
    LET rq == [op |-> "extend", id |-> id, novaDataLimite |-> novaDataLimite,
               motivo |-> motivo, usuarioId |-> usuarioId]
    IN
    /\ reqs < MaxReqs
    /\ IF StrFalsy(novaDataLimite) \/ StrFalsy(motivo)
       THEN /\ Respond(ErrorResponse(400, "Nova data limite e motivo são obrigatórios"), rq)
            /\ UNCHANGED <<demandas, seq, auditoria, backups>>
       ELSE IF id \notin DOMAIN demandas
       THEN /\ Respond(NotFound, rq)
            /\ UNCHANGED <<demandas, seq, auditoria, backups>>
       ELSE LET existente == demandas[id]
                novoComentario == NotaPrazo(existente.comentarioGestor, now, motivo)
                row == [existente EXCEPT !.dataLimite = novaDataLimite,
                                         !.comentarioGestor = novoComentario,
                                         !.dataAtualizacao = now]
            IN
            /\ demandas' = Put(demandas, id, row)
            /\ auditoria' = registrarAuditoria(auditoria, "EXTEND_DEADLINE", "demandas", id,
                               [dataLimite |-> existente.dataLimite,
                                comentarioGestor |-> existente.comentarioGestor],
                               [dataLimite |-> novaDataLimite,
                                comentarioGestor |-> novoComentario],
                               usuarioId)
            /\ Respond([code |-> 200, success |-> TRUE,
                        demanda |-> normalizarDadosDemanda(row)], rq)
            /\ UNCHANGED <<seq, backups>>

ExtendDeadline ==
    \E id \in IdsToTry, m \in {UNDEF, "férias"} :
        ExtendDeadlineReq(id, "2025-02-01", m, 1)

\* ---------------------------------------- POST /api/demandas/:id/reassign
\* JSON.parse(demandaExistente.atribuidos || '[]') inside try / catch
AtribuidosAtuais(col) ==
    IF col \in {JNull, Absent} THEN EmptyList
    ELSE IF IsString(col) /\ Parses(col) THEN JSONparse(col)
    ELSE EmptyList

\* atribuidosAtuais.find(a => a.id == novoAtribuidoId) finds an entry
JaAtribuido(lista, uid) == \E k \in 1..Len(lista.items) : lista.items[k] = uid

\* the list after the conditional push
\* the push without the find in front of it
NovosAtribuidosSemVerificar(lista, uid) == JList(Append(lista.items, uid))

NovosAtribuidos(lista, uid) ==
    IF JaAtribuido(lista, uid) THEN lista ELSE JList(Append(lista.items, uid))

NotaReatribuicao(comentarioAtual, t, nome, motivo) ==
    Append(comentarioAtual, <<"Reatribuído", t, nome, motivo>>)

ReassignReq(id, novoAtribuidoId, motivo, usuarioId) ==
    LET rq == [op |-> "reassign", id |-> id, novoAtribuidoId |-> novoAtribuidoId,
               motivo |-> motivo, usuarioId |-> usuarioId]
    IN
    /\ reqs < MaxReqs
    /\ IF novoAtribuidoId = 0 \/ StrFalsy(motivo)
       THEN /\ Respond(ErrorResponse(400, "Novo atribuído e motivo são obrigatórios"), rq)
            /\ UNCHANGED <<demandas, seq, auditoria, backups>>
       ELSE IF id \notin DOMAIN demandas
       THEN /\ Respond(NotFound, rq)
            /\ UNCHANGED <<demandas, seq, auditoria, backups>>
       ELSE IF novoAtribuidoId \notin Usuarios
       THEN /\ Respond(ErrorResponse(404, "Usuário não encontrado"), rq)
            /\ UNCHANGED <<demandas, seq, auditoria, backups>>
       ELSE LET existente == demandas[id]
                atuais == AtribuidosAtuais(existente.atribuidos)
            IN
            IF ~IsArray(atuais)
            THEN \* atribuidosAtuais.find is not a function: the callback throws
                 /\ Respond([code |-> 0, success |-> FALSE, error |-> "TypeError"], rq)
                 /\ UNCHANGED <<demandas, seq, auditoria, backups>>
            ELSE LET novos == NovosAtribuidos(atuais, novoAtribuidoId)
                     novoComentario == NotaReatribuicao(existente.comentarioGestor,
                                           now, novoAtribuidoId, motivo)
                     row == [existente EXCEPT
                                !.atribuidos = JSONstringify(novos),
                                !.status = "atribuida_pendente_aceitacao",
                                !.comentarioGestor = novoComentario,
                                !.dataAtualizacao = now]
                 IN
                 /\ demandas' = Put(demandas, id, row)
                 /\ auditoria' = registrarAuditoria(auditoria, "REASSIGN", "demandas", id,
                                    [atribuidos |-> existente.atribuidos,
                                     status |-> existente.status],
                                    [atribuidos |-> novos,
                                     status |-> "atribuida_pendente_aceitacao"],
                                    usuarioId)
                 /\ Respond([code |-> 200, success |-> TRUE,
                             demanda |-> normalizarDadosDemanda(row)], rq)
                 /\ UNCHANGED <<seq, backups>>

Reassign ==
    \E id \in IdsToTry, u \in {0, 1, MaxItem, MaxItem + 1} :
        ReassignReq(id, u, "cobertura", 1)

\* --------------------------------------------- INSERT OR REPLACE INTO
\* an id of Date.now() magnitude: Date.now() is about 1.7e12, far above the
\* ids AUTOINCREMENT hands out
TimestampId(t) == 1000 + t

\* the row that the column defaults complete: under OR REPLACE a NULL in a
\* NOT NULL column that has a DEFAULT takes the default
WithDefaults(row, t) ==
    [row EXCEPT !.status = IF @ = NULLV THEN "pendente" ELSE @,
                !.dataCriacao = IF @ = 0 THEN t ELSE @]

\* INSERT OR REPLACE INTO demandas (id, ...): intId is FALSE when the id bound
\* is not an integer (datatype mismatch on INTEGER PRIMARY KEY); rows that
\* hold the id or the tag of the new row are deleted before it is inserted
SqlInsertOrReplace(tbl, sq, row, intId, t) ==
    LET newId == IF row.id = 0 THEN Max({sq} \cup DOMAIN tbl) + 1 ELSE row.id
        full == [WithDefaults(row, t) EXCEPT !.id = newId]
    IN
    IF ~intId \/ NotNullNoDefault(row)
    THEN [err |-> TRUE, tbl |-> tbl, seq |-> sq, lastID |-> 0]
    ELSE [err |-> FALSE,
          tbl |-> Put(Remove(tbl, TagConflicts(tbl, newId, row.tag)), newId, full),
          seq |-> Max({sq, newId}), lastID |-> newId]

\* the parameters of the INSERT OR REPLACE of restore, as the row they make
\* (dataAtualizacao, criadoPor and atualizadoPor are not in the column list)
RestoreParams(dn, t) ==
    [id |-> dn.id,
     funcionarioId |-> dn.funcionarioId,
     nomeDemanda |-> BindName(dn.nomeDemanda),
     categoria |-> BindS(dn.categoria),
     prioridade |-> BindS(dn.prioridade),
     dataCriacao |-> dn.dataCriacao,
     dataLimite |-> BindS(dn.dataLimite),
     status |-> BindS(dn.status),
     isRotina |-> IF IsTruthy(dn.isRotina) THEN "1" ELSE "0",
     diasSemana |-> BindJson(dn.diasSemana),
     tag |-> BindS(dn.tag),
     comentarioGestor |-> <<>>,
     atribuidos |-> BindJson(dn.atribuidos),
     anexosCriacao |-> BindJson(dn.anexosCriacao),
     anexosResolucao |-> BindJson(dn.anexosResolucao),
     comentariosUsuarios |-> BindJson(OrEmptyList(dn.comentariosUsuarios)),
     dataAtualizacao |-> t,
     criadoPor |-> 0,
     atualizadoPor |-> 0]

\* the same statement in the batch import: status || 'pendente'
BatchParams(dn, t) ==
    [RestoreParams(dn, t) EXCEPT
        !.status = IF StrFalsy(dn.status) THEN "pendente" ELSE dn.status]

\* records of an import payload
ImportItems ==
    <<[FullBody EXCEPT !.id = 1, !.tag = "T1", !.status = "pendente", !.dataCriacao = 1],
      [FullBody EXCEPT !.id = 2, !.tag = "T1", !.atribuidos = JList(<<1>>)],
      [FullBody EXCEPT !.id = 1, !.categoria = UNDEF],
      FullBody,
      [FullBody EXCEPT !.id = 2, !.tag = GerarTag(1)]>>

\* the payloads: lists of at most MaxBatch records of ImportItems, in the
\* order of ImportItems
ImportPayloads ==
    {[k \in 1..Len(ix) |-> ImportItems[ix[k]]] :
        ix \in {s \in UNION {[1..n -> 1..Len(ImportItems)] : n \in 1..MaxBatch} :
                    \A k \in 1..(Len(s) - 1) : s[k] < s[k + 1]}}

\* ------------------------------------------------- POST /api/restore
\* the store after the writes of records k..Len(items), with the counters
RECURSIVE RestoreFrom(_, _, _, _)
RestoreFrom(items, k, acc, t) ==
    IF k > Len(items) THEN acc
    ELSE LET dn == normalizarDadosDemanda(items[k])
             r == SqlInsertOrReplace(acc.tbl, acc.seq, RestoreParams(dn, t), TRUE, t)
         IN RestoreFrom(items, k + 1,
                [tbl |-> r.tbl, seq |-> r.seq,
                 successCount |-> acc.successCount + (IF r.err THEN 0 ELSE 1),
                 errorCount |-> acc.errorCount + (IF r.err THEN 1 ELSE 0)], t)

\* isArray is Array.isArray(req.body.demandas); items is that array
RestoreReq(isArray, items) ==
    LET rq == [op |-> "restore", isArray |-> isArray, demandas |-> items] IN
    /\ reqs < MaxReqs
    /\ IF ~isArray
       THEN /\ Respond(ErrorResponse(400, "Formato inválido"), rq)
            /\ UNCHANGED <<demandas, seq, auditoria, backups>>
       ELSE LET r == RestoreFrom(items, 1, [tbl |-> demandas, seq |-> seq,
                                            successCount |-> 0, errorCount |-> 0], now)
            IN
            /\ demandas' = r.tbl
            /\ seq' = r.seq
            /\ RespondLater([code |-> 200, success |-> TRUE,
                             successCount |-> r.successCount,
                             errorCount |-> r.errorCount], rq)
            /\ UNCHANGED <<auditoria, backups>>

Restore ==
    \/ RestoreReq(FALSE, <<>>)
    \/ \E items \in ImportPayloads : RestoreReq(TRUE, items)

\* ------------------------------------------- POST /api/demandas/batch
MaxErrosResposta == 20
MaxResultadosResposta == 50

\* Date.now() + Math.random() as the value bound to INTEGER PRIMARY KEY: the
\* sum is a double, an integer only when the fraction rounds away
RandomOutcomes == {"fraction", "down", "up"}
IdAleatorio(t, rnd) == IF rnd = "up" THEN TimestampId(t) + 1 ELSE TimestampId(t)

Prefix(s, n) == SubSeq(s, 1, IF Len(s) < n THEN Len(s) ELSE n)

\* the store after the writes of items k..Len(items), with the counters and
\* the lists of the response; rnds[k] is what Math.random() gave for item k
RECURSIVE BatchFrom(_, _, _, _, _)
BatchFrom(items, rnds, k, acc, t) ==
    IF k > Len(items) THEN acc
    ELSE LET dn0 == normalizarDadosDemanda(items[k])
             semId == dn0.id = 0
             dn1 == IF semId THEN [dn0 EXCEPT !.id = IdAleatorio(t, rnds[k])] ELSE dn0
             dn == IF StrFalsy(dn1.tag)
                   THEN [dn1 EXCEPT !.tag = GerarTagImp(t, k - 1)] ELSE dn1
             r == SqlInsertOrReplace(acc.tbl, acc.seq, BatchParams(dn, t),
                                     ~(semId /\ rnds[k] = "fraction"), t)
         IN BatchFrom(items, rnds, k + 1,
                [tbl |-> r.tbl, seq |-> r.seq,
                 successCount |-> acc.successCount + (IF r.err THEN 0 ELSE 1),
                 errorCount |-> acc.errorCount + (IF r.err THEN 1 ELSE 0),
                 errors |-> IF r.err THEN Append(acc.errors, k) ELSE acc.errors,
                 results |-> IF r.err THEN acc.results
                             ELSE Append(acc.results, [id |-> dn.id, tag |-> dn.tag])],
                t)

BatchReq(isArray, items, rnds) ==
    LET rq == [op |-> "batch", isArray |-> isArray, demandas |-> items] IN
    /\ reqs < MaxReqs
    /\ IF ~isArray
       THEN /\ Respond(ErrorResponse(400, "Formato inválido. Envie um array de demandas."), rq)
            /\ UNCHANGED <<demandas, seq, auditoria, backups>>
       ELSE LET r == BatchFrom(items, rnds, 1,
                        [tbl |-> demandas, seq |-> seq, successCount |-> 0,
                         errorCount |-> 0, errors |-> <<>>, results |-> <<>>], now)
            IN
            /\ demandas' = r.tbl
            /\ seq' = r.seq
            /\ backups' = IF r.successCount > 0
                          THEN criarBackup(backups, "batch_import", now + 1, r.tbl)
                          ELSE backups
            /\ RespondLater([code |-> 200, success |-> TRUE,
                             successCount |-> r.successCount,
                             errorCount |-> r.errorCount,
                             errors |-> Prefix(r.errors, MaxErrosResposta),
                             results |-> Prefix(r.results, MaxResultadosResposta)], rq)
            /\ UNCHANGED auditoria

Batch ==
    \/ BatchReq(FALSE, <<>>, <<>>)
    \/ \E items \in ImportPayloads :
          \E rnds \in [1..Len(items) -> RandomOutcomes] :
              \* Math.random() is called for the items without id only
              /\ \A k \in 1..Len(items) : items[k].id # 0 => rnds[k] = "fraction"
              /\ BatchReq(TRUE, items, rnds)

\* ======================================================================
\* The routes of the first server of the file: verificarToken in front of
\* the handler, criarNotificacao after the write
\* ======================================================================
\* io.to(`user_${usuarioId}`).emit('notificacao', notificacao)
emitirNotificacao(pushes, usuarioId, notificacao) ==
    IF "emit" \in falha
    THEN \* nobody has joined the room, or the connection is gone
         pushes
    ELSE Append(pushes, [sala |-> <<"user", usuarioId>>] @@ notificacao)

\* a criarNotificacao that pushes whether or not the row was inserted
criarNotificacaoEmiteSempre(st, usuarioId, tipo, tag) ==
    LET rows == IF "notificacao" \in falha THEN st.rows
                ELSE Append(st.rows, [usuarioId |-> usuarioId, tipo |-> tipo,
                                      tag |-> tag])
    IN [rows |-> rows,
        pushes |-> emitirNotificacao(st.pushes, usuarioId,
                       [id |-> Len(st.rows) + 1, tipo |-> tipo, tag |-> tag])]

\* criarNotificacao(usuarioId, tipo, titulo, mensagem, tag, prioridade):
\* st.rows is table notificacoes and st.pushes the pushes made so far; the
\* id of a row is its position
criarNotificacao(st, usuarioId, tipo, tag) ==
    IF "notificacao" \in falha
    THEN \* the INSERT fails: the callback logs the error and returns
         st
    ELSE LET rows == Append(st.rows, [usuarioId |-> usuarioId, tipo |-> tipo,
                                      tag |-> tag])
         IN [rows |-> rows,
             pushes |-> emitirNotificacao(st.pushes, usuarioId,
                            [id |-> Len(rows), tipo |-> tipo, tag |-> tag])]

\* dadosNormalizados.atribuidos.forEach(...) of create, from entry k on
RECURSIVE NotificarAtribuidos(_, _, _, _, _)
NotificarAtribuidos(st, items, k, funcionarioId, tag) ==
    IF k > Len(items) THEN st
    ELSE NotificarAtribuidos(
             IF items[k] # funcionarioId
             THEN criarNotificacao(st, items[k], "nova_demanda", tag)
             ELSE st,
             items, k + 1, funcionarioId, tag)

\* usuario is req.usuario.id of the decoded token, 0 without a valid token
CreateV1Req(body, usuario) ==
    LET v == validarDemanda(body)
        dn0 == normalizarDadosDemanda(body)
        dn == [dn0 EXCEPT !.tag = CreateTag(dn0, now)]
        params == [CreateParams(dn, now) EXCEPT
                      !.criadoPor = usuario,
                      !.comentariosUsuarios = JSONstringify(EmptyList)]
        r == SqlInsert(demandas, seq, params)
        rq == [op |-> "create", body |-> body, usuario |-> usuario]
        st == [rows |-> notificacoes, pushes |-> emitidos]
        nt == IF IsArray(dn.atribuidos)
              THEN NotificarAtribuidos(st, dn.atribuidos.items, 1, dn.funcionarioId,
                                       dn.tag)
              ELSE st
    IN
    /\ reqs < MaxReqs
    /\ resp' = IF usuario = 0 THEN ErrorResponse(401, "Token não fornecido")
               ELSE IF v.code # 0 THEN ErrorResponse(v.code, v.error)
               ELSE IF r.err THEN ErrorResponse(500, "SQLITE_CONSTRAINT")
               ELSE IF IsString(dn.atribuidos)
               THEN \* atribuidos.forEach is not a function: the callback throws
                    [code |-> 0, success |-> FALSE, error |-> "TypeError"]
               ELSE CreateResponse(dn, r.lastID, params)
    /\ req' = rq
    /\ reqs' = reqs + 1
    /\ IF usuario = 0 \/ v.code # 0 \/ r.err
       THEN UNCHANGED <<demandas, seq, auditoria, notificacoes, emitidos>>
       ELSE /\ demandas' = r.tbl
            /\ seq' = r.seq
            /\ auditoria' = registrarAuditoria(auditoria, "CREATE", "demandas",
                                r.lastID, NullDemanda, dn, usuario)
            /\ notificacoes' = nt.rows
            /\ emitidos' = nt.pushes
    /\ UNCHANGED <<backups, jobs, running, lote, falha, now, normVars>>

CreateV1 ==
    \E usuario \in {0, 1},
       body \in CoreBodies
                  \cup {[FullBody EXCEPT !.atribuidos = JList(a)] :
                            a \in {<<1, 2>>, <<2, 2>>, <<2>>}} :
        CreateV1Req(body, usuario)

UpdateV1Req(id, d, usuario) ==
    LET rq == [op |-> "update", id |-> id, body |-> d, usuario |-> usuario]
        existe == usuario # 0 /\ id \in DOMAIN demandas
        existente == demandas[id]
        dc == [DadosCompletos(existente, d, now) EXCEPT !.atualizadoPor = usuario]
        r == SqlUpdate(demandas, id,
                 [UpdateParams(existente, dc) EXCEPT
                     !.comentariosUsuarios = existente.comentariosUsuarios])
        st == [rows |-> notificacoes, pushes |-> emitidos]
        nt == IF existente.status # dc.status /\ dc.status = "aprovada"
              THEN criarNotificacao(st, dc.funcionarioId, "demanda_aprovada", dc.tag)
              ELSE IF existente.status # dc.status /\ dc.status = "reprovada"
              THEN criarNotificacao(st, dc.funcionarioId, "demanda_reprovada", dc.tag)
              ELSE st
    IN
    /\ reqs < MaxReqs
    /\ resp' = IF usuario = 0 THEN ErrorResponse(401, "Token não fornecido")
               ELSE IF ~existe THEN NotFound
               ELSE IF r.err THEN ErrorResponse(500, "SQLITE_CONSTRAINT")
               ELSE [code |-> 200, success |-> TRUE, demanda |-> dc]
    /\ req' = rq
    /\ reqs' = reqs + 1
    /\ IF ~existe \/ r.err
       THEN UNCHANGED <<demandas, auditoria, notificacoes, emitidos, backups>>
       ELSE /\ demandas' = r.tbl
            /\ auditoria' = registrarAuditoria(auditoria, "UPDATE", "demandas",
                               id, existente, dc, usuario)
            /\ notificacoes' = nt.rows
            /\ emitidos' = nt.pushes
            /\ backups' = IF dc.status \in {"aprovada", "reprovada"}
                          THEN criarBackup(backups, "status_change", now, r.tbl)
                          ELSE backups
    /\ UNCHANGED <<seq, jobs, running, lote, falha, now, normVars>>

UpdateV1 ==
    \E id \in IdsToTry, usuario \in {0, 1},
       d \in UpdateBodies \cup {[EmptyBody EXCEPT !.status = "reprovada"]} :
        UpdateV1Req(id, d, usuario)

\* the last path segment of DELETE /api/notificacoes/<segment>
Segmentos == {"1", "2", "3", "limpar-todas"}

\* WHERE id = ? with the text of the segment as parameter: the INTEGER
\* column converts a text that is a number; any other text equals no id
IdDoSegmento(seg) ==
    IF seg = "1" THEN 1 ELSE IF seg = "2" THEN 2 ELSE IF seg = "3" THEN 3 ELSE 0

\* a deleted row of notificacoes keeps its position, with no recipient, as
\* AUTOINCREMENT never gives its id to a later row
NotificacaoRemovida(row) == [row EXCEPT !.usuarioId = 0, !.tipo = "removida"]

\* DELETE /api/notificacoes/<seg> sent with the token of usuario (0 for no
\* valid token) and the query parameter usuarioId (0 when absent). Express
\* gives the request to the first route registered whose path matches:
\* '/api/notificacoes/:id' (line 1062) matches every non-empty segment, so
\* '/api/notificacoes/limpar-todas' (line 1076) is tried only for a segment
\* the first does not match
DeleteNotificacoes ==
    \E seg \in Segmentos, usuario \in {0, 1, 2}, usuarioId \in {0, 1, 2} :
        LET id == IF usuarioId # 0 THEN usuarioId ELSE usuario IN
        /\ reqs < MaxReqs
        /\ reqs' = reqs + 1
        /\ req' = [op |-> "notificacoes.delete", seg |-> seg, usuario |-> usuario,
                   usuarioId |-> usuarioId]
        /\ resp' = IF usuario = 0 THEN ErrorResponse(401, "Token não fornecido")
                   ELSE [code |-> 200, success |-> TRUE]
        /\ notificacoes' =
               IF usuario = 0 THEN notificacoes
               ELSE IF seg # ""
               THEN \* DELETE FROM notificacoes WHERE id = ?
                    [k \in 1..Len(notificacoes) |->
                        IF k = IdDoSegmento(seg)
                        THEN NotificacaoRemovida(notificacoes[k])
                        ELSE notificacoes[k]]
               ELSE \* DELETE FROM notificacoes WHERE usuarioId = ?
                    [k \in 1..Len(notificacoes) |->
                        IF notificacoes[k].usuarioId = id
                        THEN NotificacaoRemovida(notificacoes[k])
                        ELSE notificacoes[k]]
        /\ UNCHANGED <<demandas, seq, auditoria, backups, jobs, running, falha,
                       emitidos, lote, now, normVars>>

\* ------------------------------------------------------- specification
Init ==
    /\ InitStore
    /\ nd = NullDemanda
    /\ nprev = NullDemanda
    /\ ncalls = 0

Next ==
    \/ Create
    \/ GetDemandas
    \/ Update
    \/ Delete
    \/ ExtendDeadline
    \/ Reassign
    \/ Restore
    \/ Batch
    \/ Tick

Spec == Init /\ [][Next]_vars

\* creation and listing alone, over every body of CreateBodies
NextCreate ==
    \/ CreateAny
    \/ GetDemandas
    \/ Tick

SpecCreate == Init /\ [][NextCreate]_vars

\* the single-record operations (every audited operation) and listing
NextStore ==
    \/ Create
    \/ GetDemandas
    \/ Update
    \/ Delete
    \/ ExtendDeadline
    \/ Reassign
    \/ Tick

SpecStore == Init /\ [][NextStore]_vars

\* create and update of both servers of the file
NextNotifica ==
    \/ CreateAny
    \/ Update
    \/ CreateV1
    \/ UpdateV1
    \/ Tick

SpecNotifica == Init /\ [][NextNotifica]_vars

\* the first server's create and the deletion of notifications
SpecLimpa == Init /\ [][CreateV1 \/ DeleteNotificacoes]_vars

\* ======================================================================
\* criarBackup as the callbacks it is made of: the call takes the timestamp
\* and queues db.all; the callback of db.all builds the snapshot and calls
\* fs.writeFile. A job also records the call that made it: alvo is the id
\* deleted (0 for no delete) and antes the table before that delete.
\* ======================================================================
\* criarBackup(tipo): the part that runs in the caller
EnqueueBackup(q, tipo, t, alvo, antes) ==
    Append(q, [tipo |-> tipo, data |-> t, fase |-> "read", rows |-> <<>>,
               alvo |-> alvo, antes |-> antes])

\* the rows of SELECT * FROM demandas, each one normalized
Snapshotted(tbl) == [i \in DOMAIN tbl |-> normalizarDadosDemanda(tbl[i])]

\* the callback of db.all of a queued backup; the callback SIGINT gave to
\* its shutdown backup ends the process, and the callbacks still queued
\* never run
BackupRead ==
    \E k \in 1..Len(jobs) :
        /\ jobs[k].fase = "read"
        /\ jobs' = IF "backup" \in falha
                   THEN \* db.all fails: the error is logged, nothing is written
                        IF jobs[k].tipo = "shutdown" THEN <<>>
                        ELSE SubSeq(jobs, 1, k - 1) \o SubSeq(jobs, k + 1, Len(jobs))
                   ELSE [jobs EXCEPT ![k].fase = "write",
                                     ![k].rows = Snapshotted(demandas)]
        /\ running' = (running /\ ~("backup" \in falha /\ jobs[k].tipo = "shutdown"))
        /\ UNCHANGED <<demandas, seq, auditoria, backups, notificacoes, falha, emitidos,
                       lote, now, req, resp, reqs, normVars>>

\* fs.writeFile of a queued backup: a file of the same name is replaced
BackupWrite ==
    \E k \in 1..Len(jobs) :
        LET j == jobs[k]
            name == <<"backup", j.tipo, j.data>>
        IN
        /\ j.fase = "write"
        /\ backups' = IF "backup" \in falha
                      THEN \* fs.writeFile fails: the error is logged
                           backups
                      ELSE {b \in backups : b.name # name}
                               \cup {[name |-> name, versao |-> "1.0.0",
                                      data |-> j.data, tipo |-> j.tipo,
                                      totalDemandas |-> Cardinality(DOMAIN j.rows),
                                      demandas |-> j.rows, alvo |-> j.alvo,
                                      antes |-> j.antes]}
        /\ jobs' = IF j.tipo = "shutdown" THEN <<>>
                   ELSE SubSeq(jobs, 1, k - 1) \o SubSeq(jobs, k + 1, Len(jobs))
        /\ running' = (running /\ j.tipo # "shutdown")
        /\ UNCHANGED <<demandas, seq, auditoria, notificacoes, falha, emitidos, lote,
                       now, req, resp, reqs, normVars>>

\* DELETE /api/demandas/:id with its backup queued
DeleteQueued ==
    \E id \in IdsToTry :
        LET rq == [op |-> "delete", id |-> id, usuarioId |-> 1] IN
        /\ reqs < MaxReqs
        /\ req' = rq
        /\ reqs' = reqs + 1
        /\ IF id \notin DOMAIN demandas
           THEN /\ resp' = NotFound
                /\ UNCHANGED <<demandas, auditoria, jobs>>
           ELSE /\ demandas' = Remove(demandas, {id})
                /\ auditoria' = registrarAuditoria(auditoria, "DELETE", "demandas",
                                   id, demandas[id], NullDemanda, 1)
                /\ jobs' = EnqueueBackup(jobs, "delete", now, id, Snapshotted(demandas))
                /\ resp' = [code |-> 200, success |-> TRUE]
        /\ UNCHANGED <<seq, backups, notificacoes, running, falha, emitidos, lote,
                       now, normVars>>

\* process.on('SIGTERM'): process.exit(0); the callbacks still queued never run
\* and what the connection executed in a transaction not yet committed is
\* not in the database file
Sigterm ==
    /\ running
    /\ running' = FALSE
    /\ jobs' = <<>>
    /\ demandas' = IF lote.tx THEN lote.salvo.tbl ELSE demandas
    /\ seq' = IF lote.tx THEN lote.salvo.seq ELSE seq
    /\ auditoria' = IF lote.tx THEN lote.salvo.log ELSE auditoria
    /\ lote' = [lote EXCEPT !.ativo = FALSE, !.tx = FALSE, !.salvo = <<>>]
    /\ UNCHANGED <<backups, notificacoes, falha, emitidos, now, req, resp, reqs,
                   normVars>>

\* process.on('SIGINT'): criarBackup('shutdown', callback), and the callback
\* calls process.exit(0); trava says that the read of this backup never
\* calls back
Sigint ==
    \E trava \in BOOLEAN :
        /\ running
        /\ Cardinality({k \in 1..Len(jobs) : jobs[k].tipo = "shutdown"}) < MaxSinais
        /\ jobs' = Append(jobs, [EnqueueBackup(<<>>, "shutdown", now, 0, <<>>)[1]
                                    EXCEPT !.fase = IF trava THEN "hung" ELSE "read"])
        /\ UNCHANGED <<demandas, seq, auditoria, backups, notificacoes, running, falha,
                       emitidos, lote, now, req, resp, reqs, normVars>>

\* ======================================================================
\* The single-record handlers as the callbacks they are made of. Each one
\* issues SELECT * FROM demandas WHERE id = ? and, in the callback of that
\* read, builds its statement from the row read and issues it; the callback
\* of the statement audits and answers. Callbacks of other requests run
\* between the two. A job of tipo "req" is a statement issued and not yet
\* executed: fase is the handler, existente the row read, body the request
\* and data the time of the read callback.
\* ======================================================================
\* the requests of the four handlers
PedidosDeEscrita ==
    {[op |-> "update", body |-> d] : d \in UpdateBodies}
        \cup {[op |-> "delete", usuarioId |-> 1]}
        \cup {[op |-> "extend", novaDataLimite |-> "2025-02-01", motivo |-> "férias",
                usuarioId |-> 1]}
        \cup {[op |-> "reassign", novoAtribuidoId |-> u, motivo |-> "cobertura",
                usuarioId |-> 1] : u \in 1..MaxItem}

\* the callback of db.get of PUT, DELETE, extend-deadline and reassign (of
\* reassign, the callback of the read of usuarios with it): 404 without a
\* row, else the statement is issued
LerDemanda ==
    \E id \in IdsToTry, p \in PedidosDeEscrita :
        /\ reqs < MaxReqs
        /\ reqs' = reqs + 1
        /\ IF id \notin DOMAIN demandas
           THEN /\ resp' = NotFound
                /\ req' = [id |-> id] @@ p
                /\ jobs' = jobs
           ELSE /\ jobs' = Append(jobs, [tipo |-> "req", fase |-> p.op, id |-> id,
                                         existente |-> demandas[id], body |-> p,
                                         data |-> now])
                /\ UNCHANGED <<req, resp>>
        /\ UNCHANGED <<demandas, seq, auditoria, backups, notificacoes, running, falha,
                       emitidos, lote, now, normVars>>

\* an UPDATE that is refused when the row is no longer the row read
UpdateWriteOtimista ==
    \E k \in 1..Len(jobs) :
        LET j == jobs[k]
            d == j.body.body
            dc == DadosCompletos(j.existente, d, j.data)
            r == SqlUpdate(demandas, j.id, UpdateParams(j.existente, dc))
            mudou == j.id \in DOMAIN demandas /\ demandas[j.id] # j.existente
        IN
        /\ j.fase = "update"
        /\ jobs' = SubSeq(jobs, 1, k - 1) \o SubSeq(jobs, k + 1, Len(jobs))
        /\ req' = [id |-> j.id] @@ j.body
        /\ IF r.err \/ mudou
           THEN /\ resp' = ErrorResponse(IF mudou THEN 409 ELSE 500, "SQLITE_CONSTRAINT")
                /\ UNCHANGED <<demandas, auditoria, backups>>
           ELSE /\ demandas' = r.tbl
                /\ auditoria' = registrarAuditoria(auditoria, "UPDATE", "demandas",
                                   j.id, j.existente, dc, d.funcionarioId)
                /\ backups' = IF d.status \in {"aprovada", "reprovada"}
                              THEN criarBackup(backups, "status_change", now, r.tbl)
                              ELSE backups
                /\ resp' = [code |-> 200, success |-> TRUE, demanda |-> dc]
        /\ UNCHANGED <<seq, notificacoes, running, falha, emitidos, lote, now, reqs,
                       normVars>>

\* the callback of db.run of PUT /api/demandas/:id: the UPDATE has executed
\* (on no row, without error, if the row is gone); this.changes is not read
UpdateWrite ==
    \E k \in 1..Len(jobs) :
        LET j == jobs[k]
            d == j.body.body
            dc == DadosCompletos(j.existente, d, j.data)
            r == SqlUpdate(demandas, j.id, UpdateParams(j.existente, dc))
        IN
        /\ j.fase = "update"
        /\ jobs' = SubSeq(jobs, 1, k - 1) \o SubSeq(jobs, k + 1, Len(jobs))
        /\ req' = [id |-> j.id] @@ j.body
        /\ IF r.err
           THEN /\ resp' = ErrorResponse(500, "SQLITE_CONSTRAINT")
                /\ UNCHANGED <<demandas, auditoria, backups>>
           ELSE /\ demandas' = r.tbl
                /\ auditoria' = registrarAuditoria(auditoria, "UPDATE", "demandas",
                                   j.id, j.existente, dc, d.funcionarioId)
                /\ backups' = IF d.status \in {"aprovada", "reprovada"}
                              THEN criarBackup(backups, "status_change", now, r.tbl)
                              ELSE backups
                /\ resp' = [code |-> 200, success |-> TRUE, demanda |-> dc]
        /\ UNCHANGED <<seq, notificacoes, running, falha, emitidos, lote, now, reqs,
                       normVars>>

\* the callback of db.run of DELETE /api/demandas/:id
DeleteWrite ==
    \E k \in 1..Len(jobs) :
        LET j == jobs[k]
            tbl == Remove(demandas, {j.id})
        IN
        /\ j.fase = "delete"
        /\ jobs' = SubSeq(jobs, 1, k - 1) \o SubSeq(jobs, k + 1, Len(jobs))
        /\ req' = [id |-> j.id] @@ j.body
        /\ demandas' = tbl
        /\ auditoria' = registrarAuditoria(auditoria, "DELETE", "demandas", j.id,
                           j.existente, NullDemanda, j.body.usuarioId)
        /\ backups' = criarBackup(backups, "delete", now, tbl)
        /\ resp' = [code |-> 200, success |-> TRUE]
        /\ UNCHANGED <<seq, notificacoes, running, falha, emitidos, lote, now, reqs,
                       normVars>>

\* the callback of db.run of extend-deadline, and the db.get after it: the
\* UPDATE sets three columns of the row stored now; without a row the read
\* gives undefined, which normalizarDadosDemanda returns as it is
ExtendWrite ==
    \E k \in 1..Len(jobs) :
        LET j == jobs[k]
            novoComentario == NotaPrazo(j.existente.comentarioGestor, j.data,
                                        j.body.motivo)
            tbl == IF j.id \notin DOMAIN demandas THEN demandas
                   ELSE Put(demandas, j.id,
                            [demandas[j.id] EXCEPT
                                !.dataLimite = j.body.novaDataLimite,
                                !.comentarioGestor = novoComentario,
                                !.dataAtualizacao = j.data])
        IN
        /\ j.fase = "extend"
        /\ jobs' = SubSeq(jobs, 1, k - 1) \o SubSeq(jobs, k + 1, Len(jobs))
        /\ req' = [id |-> j.id] @@ j.body
        /\ demandas' = tbl
        /\ auditoria' = registrarAuditoria(auditoria, "EXTEND_DEADLINE", "demandas",
                           j.id,
                           [dataLimite |-> j.existente.dataLimite,
                            comentarioGestor |-> j.existente.comentarioGestor],
                           [dataLimite |-> j.body.novaDataLimite,
                            comentarioGestor |-> novoComentario],
                           j.body.usuarioId)
        /\ resp' = [code |-> 200, success |-> TRUE,
                    demanda |-> IF j.id \in DOMAIN tbl
                                THEN normalizarDadosDemanda(tbl[j.id])
                                ELSE NullDemanda]
        /\ UNCHANGED <<seq, backups, notificacoes, running, falha, emitidos, lote, now,
                       reqs, normVars>>

\* the callback of db.run of reassign, and the db.get after it: the list
\* written is the list read with the new assignee pushed
ReassignWrite ==
    \E k \in 1..Len(jobs) :
        LET j == jobs[k]
            atuais == AtribuidosAtuais(j.existente.atribuidos)
            novos == IF IsArray(atuais)
                     THEN NovosAtribuidos(atuais, j.body.novoAtribuidoId)
                     ELSE atuais
            tbl == IF j.id \notin DOMAIN demandas THEN demandas
                   ELSE Put(demandas, j.id,
                            [demandas[j.id] EXCEPT
                                !.atribuidos = JSONstringify(novos),
                                !.status = "atribuida_pendente_aceitacao",
                                !.comentarioGestor =
                                    NotaReatribuicao(j.existente.comentarioGestor,
                                        j.data, j.body.novoAtribuidoId, j.body.motivo),
                                !.dataAtualizacao = j.data])
        IN
        /\ j.fase = "reassign"
        /\ jobs' = SubSeq(jobs, 1, k - 1) \o SubSeq(jobs, k + 1, Len(jobs))
        /\ req' = [id |-> j.id] @@ j.body
        /\ IF ~IsArray(atuais)
           THEN \* atribuidosAtuais.find is not a function: the read callback
                \* threw and no statement was issued
                /\ resp' = [code |-> 0, success |-> FALSE, error |-> "TypeError"]
                /\ UNCHANGED <<demandas, auditoria>>
           ELSE /\ demandas' = tbl
                /\ auditoria' = registrarAuditoria(auditoria, "REASSIGN", "demandas",
                                   j.id,
                                   [atribuidos |-> j.existente.atribuidos,
                                    status |-> j.existente.status],
                                   [atribuidos |-> novos,
                                    status |-> "atribuida_pendente_aceitacao"],
                                   j.body.usuarioId)
                /\ resp' = [code |-> 200, success |-> TRUE,
                            demanda |-> IF j.id \in DOMAIN tbl
                                        THEN normalizarDadosDemanda(tbl[j.id])
                                        ELSE NullDemanda]
        /\ UNCHANGED <<seq, backups, notificacoes, running, falha, emitidos, lote, now,
                       reqs, normVars>>

\* the store after two creates answered success
InitAsync ==
    LET dn1 == [normalizarDadosDemanda(FullBody) EXCEPT !.tag = "T1"]
        dn2 == [normalizarDadosDemanda(FullBody) EXCEPT !.tag = "T2"]
        r1 == SqlInsert(<<>>, 0, CreateParams(dn1, 1))
        r2 == SqlInsert(r1.tbl, r1.seq, CreateParams(dn2, 1))
    IN
    /\ falha = {}
    /\ demandas = r2.tbl
    /\ seq = r2.seq
    /\ auditoria = registrarAuditoria(
                       registrarAuditoria(<<>>, "CREATE", "demandas", r1.lastID,
                                          NullDemanda, dn1, dn1.funcionarioId),
                       "CREATE", "demandas", r2.lastID, NullDemanda, dn2,
                       dn2.funcionarioId)
    /\ backups = {}
    /\ notificacoes = <<>>
    /\ jobs = <<>>
    /\ running = TRUE
    /\ emitidos = <<>>
    /\ lote = NoLote
    /\ now = 1
    /\ req = NoReq
    /\ resp = NoResp
    /\ reqs = 0
    /\ nd = NullDemanda
    /\ nprev = NullDemanda
    /\ ncalls = 0

\* two stored demands and the callbacks of the four handlers in any order
SpecCorrida ==
    InitAsync /\ [][LerDemanda \/ UpdateWrite \/ DeleteWrite \/ ExtendWrite
                       \/ ReassignWrite]_vars

NextAsync ==
    \/ running /\ Create
    \/ running /\ DeleteQueued
    \/ running /\ BackupRead
    \/ running /\ BackupWrite
    \/ running /\ Tick
    \/ Sigterm

NextShutdown ==
    \/ running /\ DeleteQueued
    \/ running /\ BackupRead
    \/ running /\ BackupWrite
    \/ running /\ Tick
    \/ Sigint
    \/ Sigterm

\* the callbacks that do come are eventually run
SpecShutdown ==
    InitAsync /\ [][NextShutdown]_vars /\ WF_vars(running /\ BackupRead)
        /\ WF_vars(running /\ BackupWrite)

\* the callbacks of a running process are eventually run
SpecAsync ==
    InitAsync /\ [][NextAsync]_vars /\ WF_vars(running /\ BackupRead)
        /\ WF_vars(running /\ BackupWrite)

\* ======================================================================
\* POST /api/demandas/batch as the callbacks it is made of: the callback of
\* BEGIN TRANSACTION queues one write per record and sets the timer; each
\* write has its own callback; the timer issues COMMIT, whose callback
\* answers
\* ======================================================================
\* the callback of BEGIN TRANSACTION: demandas.forEach and setTimeout
BatchBegin ==
    \E items \in ImportPayloads :
        /\ reqs < MaxReqs
        /\ IF lote.tx
           THEN \* cannot start a transaction within a transaction
                /\ resp' = ErrorResponse(500, "Erro ao iniciar transação do banco de dados")
                /\ req' = [op |-> "batch", isArray |-> TRUE, demandas |-> items]
                /\ reqs' = reqs + 1
                /\ lote' = lote
           ELSE /\ ~lote.ativo
                /\ \E rnds \in [1..Len(items) -> RandomOutcomes] :
                       /\ \A k \in 1..Len(items) :
                              items[k].id # 0 => rnds[k] = "fraction"
                       /\ lote' = [NoLote EXCEPT
                                      !.op = "batch", !.ativo = TRUE, !.items = items,
                                      !.t = now, !.rnds = rnds, !.tx = TRUE,
                                      !.salvo = [tbl |-> demandas, seq |-> seq,
                                                 log |-> auditoria]]
                /\ UNCHANGED <<req, resp, reqs>>
        /\ UNCHANGED <<demandas, seq, auditoria, backups, notificacoes, jobs,
                       running, falha, emitidos, now, normVars>>

\* the next queued INSERT OR REPLACE executes and its callback counts it;
\* the batch is over when it has answered and its last callback has run
BatchWrite ==
    /\ lote.op = "batch"
    /\ lote.ativo
    /\ lote.feitos < Len(lote.items)
    /\ LET k == lote.feitos + 1
           r == BatchFrom(SubSeq(lote.items, 1, k), lote.rnds, k,
                    [tbl |-> demandas, seq |-> seq,
                     successCount |-> lote.successCount,
                     errorCount |-> lote.errorCount,
                     errors |-> lote.errors, results |-> lote.results], lote.t)
       IN /\ demandas' = r.tbl
          /\ seq' = r.seq
          /\ lote' = [lote EXCEPT !.ativo = ~(lote.respondido /\ k = Len(lote.items)),
                                  !.feitos = k,
                                  !.successCount = r.successCount,
                                  !.errorCount = r.errorCount,
                                  !.errors = r.errors, !.results = r.results]
    /\ UNCHANGED <<auditoria, backups, notificacoes, jobs, running, falha, emitidos,
                   now, req, resp, reqs, normVars>>

\* the timer of 1000 ms fires: COMMIT, and in its callback the backup and
\* the answer, with the counters as they are
BatchCommit ==
    /\ lote.op = "batch"
    /\ lote.ativo
    /\ ~lote.respondido
    /\ resp' = [code |-> 200, success |-> TRUE,
                successCount |-> lote.successCount,
                errorCount |-> lote.errorCount,
                errors |-> Prefix(lote.errors, MaxErrosResposta),
                results |-> Prefix(lote.results, MaxResultadosResposta)]
    /\ req' = [op |-> "batch", isArray |-> TRUE, demandas |-> lote.items]
    /\ reqs' = reqs + 1
    /\ now' = now + 1
    /\ jobs' = IF lote.successCount > 0
               THEN EnqueueBackup(jobs, "batch_import", now + 1, 0, <<>>)
               ELSE jobs
    /\ lote' = [lote EXCEPT !.ativo = lote.feitos < Len(lote.items),
                            !.respondido = TRUE, !.tc = now + 1, !.tx = FALSE,
                            !.salvo = <<>>]
    /\ UNCHANGED <<demandas, seq, auditoria, backups, notificacoes, running, falha,
                   emitidos, normVars>>

\* the timer fires and COMMIT fails: the callback answers 500 and issues no
\* ROLLBACK. After SQLITE_BUSY the transaction stays open on the connection
\* (aberta); after an error such as SQLITE_FULL or SQLITE_IOERR SQLite has
\* rolled it back, and every statement the connection executed since BEGIN
\* with it
BatchCommitFalha ==
    \E aberta \in BOOLEAN :
        /\ lote.op = "batch"
        /\ lote.ativo
        /\ ~lote.respondido
        /\ resp' = ErrorResponse(500, "Erro na transação do banco de dados")
        /\ req' = [op |-> "batch", isArray |-> TRUE, demandas |-> lote.items]
        /\ reqs' = reqs + 1
        /\ now' = now + 1
        /\ lote' = [lote EXCEPT !.ativo = lote.feitos < Len(lote.items),
                                !.respondido = TRUE, !.tc = now + 1, !.tx = aberta,
                                !.salvo = IF aberta THEN lote.salvo ELSE <<>>]
        /\ demandas' = IF aberta THEN demandas ELSE lote.salvo.tbl
        /\ seq' = IF aberta THEN seq ELSE lote.salvo.seq
        /\ auditoria' = IF aberta THEN auditoria ELSE lote.salvo.log
        /\ UNCHANGED <<backups, notificacoes, jobs, running, falha, emitidos, normVars>>

NextBatch ==
    \/ BatchBegin
    \/ BatchWrite
    \/ BatchCommit
    \/ BackupRead
    \/ BackupWrite
    \/ Tick

SpecBatch == Init /\ [][NextBatch]_vars

\* a batch import, creates of other requests, and the end of the process
NextTransacao ==
    \/ running /\ BatchBegin
    \/ running /\ BatchWrite
    \/ running /\ BatchCommit
    \/ running /\ BatchCommitFalha
    \/ running /\ Create
    \/ Sigterm

SpecTransacao == Init /\ [][NextTransacao]_vars

\* ----------------------------------------------------------------------
\* POST /api/restore as the callbacks it is made of: the handler queues one
\* write per record and sets the timer; each write has its own callback;
\* the timer answers
\* ----------------------------------------------------------------------
\* the handler: demandas.forEach and setTimeout
RestoreBegin ==
    \E items \in ImportPayloads :
        /\ reqs < MaxReqs
        /\ ~lote.ativo
        /\ lote' = [NoLote EXCEPT !.op = "restore", !.ativo = TRUE, !.items = items,
                                  !.t = now]
        /\ UNCHANGED <<demandas, seq, auditoria, backups, notificacoes, jobs,
                       running, falha, emitidos, now, req, resp, reqs, normVars>>

\* a restore whose writes are audited like the single-record operations
RestoreWriteAuditado ==
    /\ lote.op = "restore"
    /\ lote.ativo
    /\ lote.feitos < Len(lote.items)
    /\ LET k == lote.feitos + 1
           r == RestoreFrom(SubSeq(lote.items, 1, k), k,
                    [tbl |-> demandas, seq |-> seq,
                     successCount |-> lote.successCount,
                     errorCount |-> lote.errorCount], lote.t)
       IN /\ demandas' = r.tbl
          /\ seq' = r.seq
          /\ auditoria' = IF r.successCount > lote.successCount
                          THEN registrarAuditoria(auditoria, "CREATE", "demandas",
                                   lote.items[k].id, NullDemanda,
                                   normalizarDadosDemanda(lote.items[k]), 0)
                          ELSE auditoria
          /\ lote' = [lote EXCEPT !.ativo = ~(lote.respondido /\ k = Len(lote.items)),
                                  !.feitos = k,
                                  !.successCount = r.successCount,
                                  !.errorCount = r.errorCount]
    /\ UNCHANGED <<backups, notificacoes, jobs, running, falha, emitidos, now, req,
                   resp, reqs, normVars>>

\* the next queued INSERT OR REPLACE executes and its callback counts it
RestoreWrite ==
    /\ lote.op = "restore"
    /\ lote.ativo
    /\ lote.feitos < Len(lote.items)
    /\ LET k == lote.feitos + 1
           r == RestoreFrom(SubSeq(lote.items, 1, k), k,
                    [tbl |-> demandas, seq |-> seq,
                     successCount |-> lote.successCount,
                     errorCount |-> lote.errorCount], lote.t)
       IN /\ demandas' = r.tbl
          /\ seq' = r.seq
          /\ lote' = [lote EXCEPT !.ativo = ~(lote.respondido /\ k = Len(lote.items)),
                                  !.feitos = k,
                                  !.successCount = r.successCount,
                                  !.errorCount = r.errorCount]
    /\ UNCHANGED <<auditoria, backups, notificacoes, jobs, running, falha, emitidos,
                   now, req, resp, reqs, normVars>>

\* the timer of 1000 ms fires: the answer, with the counters as they are
RestoreAnswer ==
    /\ lote.op = "restore"
    /\ lote.ativo
    /\ ~lote.respondido
    /\ resp' = [code |-> 200, success |-> TRUE,
                successCount |-> lote.successCount,
                errorCount |-> lote.errorCount]
    /\ req' = [op |-> "restore", isArray |-> TRUE, demandas |-> lote.items]
    /\ reqs' = reqs + 1
    /\ now' = now + 1
    /\ lote' = [lote EXCEPT !.ativo = lote.feitos < Len(lote.items),
                            !.respondido = TRUE, !.tc = now + 1]
    /\ UNCHANGED <<demandas, seq, auditoria, backups, notificacoes, jobs, running,
                   falha, emitidos, normVars>>

NextRestore ==
    \/ RestoreBegin
    \/ RestoreWrite
    \/ RestoreAnswer
    \/ Tick

SpecRestore == InitAsync /\ [][NextRestore]_vars

\* ----------------------------------------------------------------------
\* Side effects that fail: the INSERT into auditoria, the INSERT into
\* notificacoes, the push to the room, and the read or the file write of a
\* backup
\* ----------------------------------------------------------------------
Falhas == {"auditoria", "notificacao", "emit", "backup"}

\* the environment: side effects start failing
Falhar ==
    \E f \in SUBSET Falhas :
        /\ falha = {}
        /\ f # {}
        /\ falha' = f
        /\ UNCHANGED <<demandas, seq, auditoria, backups, notificacoes, jobs, running,
                       emitidos, lote, now, req, resp, reqs, normVars>>

NextFalhas ==
    \/ Falhar
    \/ Create
    \/ Delete
    \/ CreateV1
    \/ UpdateV1

SpecFalhas == Init /\ [][NextFalhas]_vars

\* ======================================================================
\* The backup directory: the timer of criarBackup('auto'), POST /api/backup
\* and the retention sweep of agendarBackups
\* ======================================================================
\* the sweep keeps this many files
Retencao == 10

\* the directory after criarBackup(tipo) has written its file; origem says
\* who called it: the timer or a request
BackupEscrito(files, tipo, t, tbl, origem) ==
    LET depois == criarBackup(files, tipo, t, tbl) IN
    (depois \cap files) \cup {b @@ [origem |-> origem] : b \in depois \ files}

\* setInterval(() => criarBackup('auto'), 6 h): the timer writes its file
\* and time goes on
BackupTimer ==
    /\ now <= MaxAuto + 1
    /\ backups' = BackupEscrito(backups, "auto", now, demandas, "timer")
    /\ now' = now + 1
    /\ UNCHANGED <<demandas, seq, auditoria, notificacoes, asyncVars, req, resp, reqs,
                   normVars>>

\* POST /api/backup: the answer is sent from the callback of criarBackup,
\* when the file has been written and the clock has moved on; the kinds
\* asked for are the default and the timer's own
BackupReq ==
    \E tipo \in {"manual", "auto"} :
        LET rq == [op |-> "backup", tipo |-> tipo] IN
        /\ reqs < MaxReqs
        /\ backups' = BackupEscrito(backups, tipo, now, demandas, "request")
        /\ IF "backup" \in falha
           THEN RespondLater(ErrorResponse(500, "EIO"), rq)
           ELSE RespondLater([code |-> 200, success |-> TRUE,
                              filename |-> <<"backup", tipo, now>>], rq)
        /\ UNCHANGED <<demandas, seq, auditoria>>

\* the files the sweep unlinks: of those named backup_auto_* (the files of
\* kind auto), sorted by name, all but the last Retencao; the timestamp in
\* the name has a fixed width, so the order of the names is the order of
\* the times
ParaRemover(files) ==
    LET backupFiles == {b \in files : b.tipo = "auto"} IN
    IF Cardinality(backupFiles) > Retencao
    THEN {b \in backupFiles :
             Cardinality({c \in backupFiles : c.data > b.data}) >= Retencao}
    ELSE {}

\* the callback of fs.readdir in the daily sweep; falhou are the files whose
\* fs.unlink fails (the error is logged)
Sweep ==
    \E falhou \in {{}} \cup {{b} : b \in ParaRemover(backups)} :
        /\ backups' = backups \ (ParaRemover(backups) \ falhou)
        /\ req' = [op |-> "sweep", falhou |-> falhou]
        /\ UNCHANGED <<demandas, seq, auditoria, notificacoes, asyncVars, now, resp,
                       reqs, normVars>>

\* a directory that holds the files the timer wrote at times 1..n
InitSweep ==
    \E n \in 0..MaxAuto :
        /\ falha = {}
        /\ backups = UNION {BackupEscrito({}, "auto", k, <<>>, "timer") : k \in 1..n}
        /\ now = n + 1
        /\ demandas = <<>>
        /\ seq = 0
        /\ auditoria = <<>>
        /\ notificacoes = <<>>
        /\ jobs = <<>>
        /\ running = TRUE
        /\ emitidos = <<>>
        /\ lote = NoLote
        /\ req = NoReq
        /\ resp = NoResp
        /\ reqs = 0
        /\ nd = NullDemanda
        /\ nprev = NullDemanda
        /\ ncalls = 0

NextSweep ==
    \/ BackupTimer
    \/ BackupReq
    \/ Sweep

SpecSweep == InitSweep /\ [][NextSweep]_vars

\* the single-record operations on a store that holds two demands
SpecPopulated == InitAsync /\ [][NextStore]_vars

\* every operation of the second server on that store
SpecPopulatedAll == InitAsync /\ [][Next]_vars

\* ======================================================================
\* Properties
\* ======================================================================
\* the step handles a request of kind op
Handles(op) == reqs' = reqs + 1 /\ req'.op = op

StoreUnchanged ==
    /\ demandas' = demandas
    /\ seq' = seq
    /\ auditoria' = auditoria
    /\ backups' = backups
    /\ notificacoes' = notificacoes

NomeValido(n) ==
    /\ n \notin {UndefName, NullName}
    /\ \E i, j \in 1..Len(n) : n[i] # " " /\ n[j] # " " /\ j - i + 1 >= 3

InvalidCreateBody(b) ==
    \/ ~NomeValido(b.nomeDemanda)
    \/ b.categoria = UNDEF
    \/ b.dataLimite = UNDEF

\* C4: a create whose nomeDemanda is missing or shorter than 3 characters
\* after trim, or whose categoria or dataLimite is missing, is answered 400
\* and changes neither the demand table nor the audit log nor the backups.
C4_InvalidCreateRejected ==
    [][(Handles("create") /\ InvalidCreateBody(req'.body)) =>
          (resp'.code = 400 /\ resp'.success = FALSE /\ StoreUnchanged)]_vars

\* a create of a name that only trim makes too short was rejected while a
\* demand was stored
C4_Witness ==
    /\ req.op = "create"
    /\ req.body.nomeDemanda = <<" ", "a", "a">>
    /\ resp.code = 400
    /\ DOMAIN demandas # {}
    /\ Len(auditoria) = 1

IsDemTag(t) == \E n \in 0..(MaxNow + MaxReqs) : t = "DEM-" \o ToString(n)

\* C5: a successful create without tag and without status stores status
\* pendente and a tag DEM-<digits>, and its response carries that tag and
\* the status pendente.
C5_DefaultsInResponse ==
    (/\ req.op = "create"
     /\ resp.code = 200
     /\ req.body.tag = UNDEF
     /\ req.body.status = UNDEF)
        => /\ resp.demanda.id \in DOMAIN demandas
           /\ demandas[resp.demanda.id].status = "pendente"
           /\ IsDemTag(demandas[resp.demanda.id].tag)
           /\ resp.demanda.tag = demandas[resp.demanda.id].tag
           /\ resp.demanda.status = "pendente"

\* a body that passes validarDemanda and has every NOT NULL column
CompleteBody(b) == ~InvalidCreateBody(b) /\ b.funcionarioId # 0 /\ b.prioridade # UNDEF

\* C6: two valid creates without tag, one after the other, both succeed and
\* get different tags, also when the clock did not move between them.
C6_DistinctGeneratedTags ==
    [][(/\ req.op = "create" /\ resp.code = 200 /\ req.body.tag = UNDEF
        /\ Handles("create") /\ req'.body.tag = UNDEF /\ CompleteBody(req'.body))
          => (resp'.code = 200 /\ resp'.demanda.tag # resp.demanda.tag)]_vars

TagsUnique ==
    \A i, j \in DOMAIN demandas :
        (i # j /\ demandas[i].tag # NULLV) => demandas[i].tag # demandas[j].tag

\* a stored demand i whose tag a record of the payload carries under another
\* id, no record of the payload naming i
TagTakenByPayload(i, items) ==
    /\ \E k \in 1..Len(items) : items[k].tag = demandas[i].tag /\ items[k].id # i
    /\ \A k \in 1..Len(items) : items[k].id # i

\* C7: no two stored demands ever have the same tag, and an import whose
\* record carries the tag of another stored demand is rejected or gets a new
\* tag: the demand that holds the tag keeps it.
C7_TagUniqueOrRejected ==
    [][/\ TagsUnique'
       /\ ((Handles("restore") \/ Handles("batch")) /\ req'.isArray) =>
             \A i \in DOMAIN demandas :
                 TagTakenByPayload(i, req'.demandas) =>
                     (i \in DOMAIN demandas' /\ demandas'[i].tag = demandas[i].tag)]_vars

\* C8: the list fetched right after a successful create holds, for the
\* created demand, the list fields of the create response and the same
\* boolean isRotina.
C8_CreateThenFetch ==
    [][(req.op = "create" /\ resp.code = 200 /\ Handles("list")) =>
          LET d == resp.demanda
              g == resp'.rows[d.id]
          IN /\ \A f \in ListFields : g[f] = d[f]
             /\ g.isRotina \in {"true", "false"}
             /\ g.isRotina = d.isRotina]_vars

AuditedOps == {"create", "update", "delete", "reassign", "extend"}

AcaoOf(op) ==
    CASE op = "create" -> "CREATE"
      [] op = "update" -> "UPDATE"
      [] op = "delete" -> "DELETE"
      [] op = "reassign" -> "REASSIGN"
      [] op = "extend" -> "EXTEND_DEADLINE"

\* the demand the request handled by this step acts on
AffectedId ==
    IF req'.op = "create"
    THEN CHOOSE i \in DOMAIN demandas' : i \notin DOMAIN demandas
    ELSE req'.id

\* the step appends exactly one row to the audit log
OneAuditRow ==
    /\ Len(auditoria') = Len(auditoria) + 1
    /\ SubSeq(auditoria', 1, Len(auditoria)) = auditoria

LastAudit == auditoria'[Len(auditoria')]

C10_NullSnapshots ==
    [][(reqs' = reqs + 1 /\ req'.op \in {"create", "update", "delete"}
            /\ resp'.code = 200) =>
          CASE req'.op = "create" ->
                 /\ LastAudit.dadosAntigos = [json |-> NullDemanda]
                 /\ LastAudit.dadosNovos = [json |-> demandas'[AffectedId]]
            [] req'.op = "delete" ->
                 /\ LastAudit.dadosAntigos = [json |-> demandas[req'.id]]
                 /\ LastAudit.dadosNovos = [json |-> NullDemanda]
            [] req'.op = "update" ->
                 /\ LastAudit.dadosAntigos = [json |-> demandas[req'.id]]
                 /\ LastAudit.dadosNovos = [json |-> resp'.demanda]]_vars

\* C10 as amended: a snapshot that is null is stored as the empty object {}.
\* CREATE rows hold {} and the normalized request body with the tag inserted;
\* DELETE rows hold the row as stored before the delete and {}; UPDATE rows
\* hold the row as stored before the update and the full merged record (the
\* record of the response).
C10_Snapshots ==
    [][(reqs' = reqs + 1 /\ req'.op \in {"create", "update", "delete"}
            /\ resp'.code = 200) =>
          CASE req'.op = "create" ->
                 /\ LastAudit.dadosAntigos = [json |-> <<>>]
                 /\ LastAudit.dadosNovos =
                        [json |-> [normalizarDadosDemanda(req'.body)
                                      EXCEPT !.tag = demandas'[AffectedId].tag]]
            [] req'.op = "delete" ->
                 /\ LastAudit.dadosAntigos = [json |-> demandas[req'.id]]
                 /\ LastAudit.dadosNovos = [json |-> <<>>]
            [] req'.op = "update" ->
                 /\ LastAudit.dadosAntigos = [json |-> demandas[req'.id]]
                 /\ LastAudit.dadosNovos = [json |-> resp'.demanda]
                 /\ \A f \in DOMAIN demandas[req'.id] \ {"dataAtualizacao", "atualizadoPor"} :
                        resp'.demanda[f] =
                            IF f \in DOMAIN req'.body
                                  /\ Defined(f, normalizarDadosDemanda(req'.body)[f])
                            THEN normalizarDadosDemanda(req'.body)[f]
                            ELSE demandas[req'.id][f]]_vars

\* a delete answered success after a create: the DELETE row holds the row
\* that the create stored and the empty object
C10_Witness ==
    /\ req.op = "delete"
    /\ resp.code = 200
    /\ Len(auditoria) = 2
    /\ auditoria[1].acao = "CREATE"
    /\ auditoria[1].dadosAntigos = [json |-> <<>>]
    /\ auditoria[2].acao = "DELETE"
    /\ auditoria[2].dadosAntigos.json.id = req.id
    /\ auditoria[2].dadosNovos = [json |-> <<>>]
    /\ req.id \notin DOMAIN demandas

\* the step appends exactly one row to table notificacoes
OneNotification ==
    /\ Len(notificacoes') = Len(notificacoes) + 1
    /\ SubSeq(notificacoes', 1, Len(notificacoes)) = notificacoes

\* the files of one kind in the backup directory
BackupsOf(files, tipo) == {b \in files : b.tipo = tipo}

\* C11: an update answered success that takes a demand from pendente to
\* aprovada or reprovada appends exactly one notification, addressed to the
\* funcionarioId of the demand, and adds exactly one status_change backup.
C11_StatusChangeEffects ==
    [][(/\ Handles("update")
        /\ resp'.code = 200
        /\ demandas[req'.id].status = "pendente"
        /\ demandas'[req'.id].status \in {"aprovada", "reprovada"})
          => /\ OneNotification
             /\ notificacoes'[Len(notificacoes')].usuarioId
                    = demandas'[req'.id].funcionarioId
             /\ Cardinality(BackupsOf(backups', "status_change"))
                    = Cardinality(BackupsOf(backups, "status_change")) + 1]_vars

\* C12: an update of a demand whose stored status is aprovada or reprovada
\* and that leaves the status as it is writes no status_change backup.
C12_BackupOnlyOnArrival ==
    [][(/\ Handles("update")
        /\ resp'.code = 200
        /\ demandas[req'.id].status \in {"aprovada", "reprovada"}
        /\ demandas'[req'.id].status = demandas[req'.id].status)
          => BackupsOf(backups', "status_change")
                 = BackupsOf(backups, "status_change")]_vars

\* C13: a delete answered success has removed the row, and it is eventually
\* followed by a delete backup file whose content is the table right before
\* or right after the removal of that row.
C13_DeleteBackedUp ==
    /\ [][(Handles("delete") /\ resp'.code = 200) =>
             req'.id \notin DOMAIN demandas']_vars
    /\ \A i \in 1..(2 + MaxReqs) :
          (req.op = "delete" /\ req.id = i /\ resp.code = 200)
              ~> (\E b \in backups :
                     /\ b.tipo = "delete"
                     /\ b.alvo = i
                     /\ b.demandas \in {b.antes, Remove(b.antes, {i})})

\* the request of this step names an id that is not in table demandas
OnMissingId ==
    /\ reqs' = reqs + 1
    /\ req'.op \in {"update", "delete", "reassign", "extend"}
    /\ req'.id \notin DOMAIN demandas

\* C14 as stated: update, delete, reassign and extend-deadline on an id that
\* is not stored are answered not-found and change nothing.
C14_MissingIdNotFound ==
    [][OnMissingId => (resp'.code = 404 /\ StoreUnchanged)]_vars

\* C14: update and delete on an id that is not stored, and reassign and
\* extend-deadline on such an id with the required fields in the body, are
\* answered 404; reassign and extend-deadline without a required field are
\* answered 400; in every case nothing is changed.
C14_MissingIdRejected ==
    [][OnMissingId =>
          /\ StoreUnchanged
          /\ resp' = IF \/ req'.op = "reassign"
                           /\ (req'.novoAtribuidoId = 0 \/ StrFalsy(req'.motivo))
                        \/ req'.op = "extend"
                           /\ (StrFalsy(req'.novaDataLimite) \/ StrFalsy(req'.motivo))
                     THEN [code |-> 400, success |-> FALSE, error |-> resp'.error]
                     ELSE [code |-> 404, success |-> FALSE,
                           error |-> "Demanda não encontrada"]]_vars

\* a reassign with a complete body on an id that is not stored was answered
\* 404 while a demand was stored
C14_Witness ==
    /\ req.op = "reassign"
    /\ req.novoAtribuidoId # 0
    /\ req.id \notin DOMAIN demandas
    /\ DOMAIN demandas # {}
    /\ resp.code = 404
    /\ resp.error = "Demanda não encontrada"

\* no id occurs twice in the list
SemDuplicados(items) ==
    \A i, j \in 1..Len(items) : i # j => items[i] # items[j]

\* C15: a reassign answered success sets status atribuida_pendente_aceitacao
\* and appends one dated note to comentarioGestor; when the new assignee is
\* already in atribuidos the list is left as it was, and a list without
\* duplicate ids stays without duplicates.
C15_ReassignNoDuplicate ==
    [][(Handles("reassign") /\ resp'.code = 200) =>
          LET antes == AtribuidosAtuais(demandas[req'.id].atribuidos).items
              depois == JSONparse(demandas'[req'.id].atribuidos).items
              nota == demandas'[req'.id].comentarioGestor
          IN /\ IsArray(JSONparse(demandas'[req'.id].atribuidos))
             /\ (\E k \in 1..Len(antes) : antes[k] = req'.novoAtribuidoId)
                    => depois = antes
             /\ SemDuplicados(antes) => SemDuplicados(depois)
             /\ \E k \in 1..Len(depois) : depois[k] = req'.novoAtribuidoId
             /\ demandas'[req'.id].status = "atribuida_pendente_aceitacao"
             /\ Len(nota) = Len(demandas[req'.id].comentarioGestor) + 1
             /\ SubSeq(nota, 1, Len(nota) - 1) = demandas[req'.id].comentarioGestor
             /\ nota[Len(nota)][2] = now]_vars

\* a reassign to user 1 of a demand created with atribuidos [1] was answered
\* success: the list still holds user 1 once
C15_Witness ==
    /\ req.op = "reassign"
    /\ req.novoAtribuidoId = 1
    /\ resp.code = 200
    /\ Len(auditoria) = 2
    /\ auditoria[2].dadosAntigos.json.atribuidos = JSONstringify(JList(<<1>>))
    /\ demandas[req.id].atribuidos = JSONstringify(JList(<<1>>))
    /\ demandas[req.id].status = "atribuida_pendente_aceitacao"

\* C16: an extend-deadline answered success sets dataLimite to the new
\* deadline and appends one dated note to comentarioGestor, the previous
\* comment kept in front of it; status, atribuidos and every other column
\* but dataAtualizacao keep their values, and so does every other demand.
C16_ExtendDeadlineFrame ==
    [][(Handles("extend") /\ resp'.code = 200) =>
          LET antes == demandas[req'.id]
              depois == demandas'[req'.id]
              nota == depois.comentarioGestor
          IN /\ DOMAIN demandas' = DOMAIN demandas
             /\ \A i \in DOMAIN demandas \ {req'.id} : demandas'[i] = demandas[i]
             /\ depois.dataLimite = req'.novaDataLimite
             /\ Len(nota) = Len(antes.comentarioGestor) + 1
             /\ SubSeq(nota, 1, Len(nota) - 1) = antes.comentarioGestor
             /\ nota[Len(nota)] = <<"Prazo estendido", now, req'.motivo>>
             /\ \A f \in DOMAIN antes \ {"dataLimite", "comentarioGestor",
                                        "dataAtualizacao"} :
                    depois[f] = antes[f]]_vars

\* an extend-deadline answered success on a demand that a reassign had
\* commented: the comment holds both notes and the status of the reassign
C16_Witness ==
    /\ req.op = "extend"
    /\ resp.code = 200
    /\ Len(demandas[req.id].comentarioGestor) = 2
    /\ demandas[req.id].comentarioGestor[1][1] = "Reatribuído"
    /\ demandas[req.id].comentarioGestor[2][1] = "Prazo estendido"
    /\ demandas[req.id].status = "atribuida_pendente_aceitacao"
    /\ demandas[req.id].dataLimite = "2025-02-01"

\* C17: an update, reassign or extend-deadline answered success leaves the
\* demand with dataAtualizacao at the time of the request and atualizadoPor
\* at the user who made it (usuarioId of the body; for update the
\* funcionarioId of the body, which the handler takes for the actor).
C17_MutationStamped ==
    [][(/\ reqs' = reqs + 1
        /\ req'.op \in {"update", "reassign", "extend"}
        /\ resp'.code = 200)
          => /\ demandas'[req'.id].dataAtualizacao = now
             /\ demandas'[req'.id].atualizadoPor
                    = IF req'.op = "update" THEN req'.body.funcionarioId
                      ELSE req'.usuarioId]_vars

\* C18: a create answered success whose atribuidos is a non-empty list adds,
\* for every user other than the owner, one nova_demanda notification for
\* each entry of the list that names the user, and none for the owner.
C18_CreateNotifiesAssignees ==
    [][(/\ Handles("create")
        /\ resp'.code = 200
        /\ IsArray(resp'.demanda.atribuidos)
        /\ resp'.demanda.atribuidos.items # <<>>)
          => LET items == resp'.demanda.atribuidos.items
                 dono == resp'.demanda.funcionarioId
                 novas == SubSeq(notificacoes', Len(notificacoes) + 1,
                                 Len(notificacoes'))
             IN /\ SubSeq(notificacoes', 1, Len(notificacoes)) = notificacoes
                /\ \A k \in 1..Len(novas) : novas[k].tipo = "nova_demanda"
                /\ \A u \in 1..MaxItem :
                       Cardinality({k \in 1..Len(novas) : novas[k].usuarioId = u})
                           = IF u = dono THEN 0
                             ELSE Cardinality({k \in 1..Len(items) : items[k] = u})]_vars

\* an import record with every column that is NOT NULL without a default
ItemValido(it) == ~NotNullNoDefault(BatchParams(normalizarDadosDemanda(it), 0))

\* no two records of the payload carry the same id or the same tag
ItensDistintos(items) ==
    \A j, k \in 1..Len(items) :
        j # k => /\ (items[j].id # 0 => items[j].id # items[k].id)
                 /\ (~StrFalsy(items[j].tag) => items[j].tag # items[k].tag)

\* C19: a batch import of records with distinct ids and tags is answered
\* success whatever records fail; every record that has the required
\* columns is stored afterwards, under its id when it has one and with its
\* own or its generated tag, and is counted in successCount; every other
\* record is counted in errorCount.
C19_BatchIsolatesFailures ==
    [][(Handles("batch") /\ req'.isArray /\ ItensDistintos(req'.demandas)) =>
          LET items == req'.demandas
              validos == {k \in 1..Len(items) : ItemValido(items[k])}
          IN /\ resp'.code = 200
             /\ resp'.success
             /\ resp'.successCount = Cardinality(validos)
             /\ resp'.errorCount = Len(items) - Cardinality(validos)
             /\ \A k \in validos :
                    \E i \in DOMAIN demandas' :
                        /\ items[k].id # 0 => i = items[k].id
                        /\ demandas'[i].tag = IF StrFalsy(items[k].tag)
                                              THEN GerarTagImp(now, k - 1)
                                              ELSE items[k].tag]_vars

\* C20: the answer of a batch import is sent when every write of the batch
\* has completed: successCount + errorCount is the number of records sent.
C20_CommitAfterWrites ==
    [][Handles("batch") =>
          /\ lote.feitos = Len(lote.items)
          /\ resp'.successCount + resp'.errorCount = Len(req'.demandas)]_vars

\* C21: after a batch import made only of records without id, every demand
\* stored before is still there unchanged, and every record that has the
\* required columns is stored under an id that was not in use, with its own
\* or its generated tag.
C21_BatchAssignsNewId ==
    [][(Handles("batch") /\ req'.isArray
            /\ \A k \in 1..Len(req'.demandas) : req'.demandas[k].id = 0) =>
          LET items == req'.demandas IN
          /\ \A i \in DOMAIN demandas :
                 i \in DOMAIN demandas' /\ demandas'[i] = demandas[i]
          /\ \A k \in 1..Len(items) :
                 ItemValido(items[k]) =>
                     \E i \in DOMAIN demandas' \ DOMAIN demandas :
                         demandas'[i].tag = IF StrFalsy(items[k].tag)
                                            THEN GerarTagImp(now, k - 1)
                                            ELSE items[k].tag]_vars

\* C22: when a batch import is over, a batch_import backup has been started
\* for it exactly if one of its records was stored; and the snapshot of that
\* backup, once read, holds every record the batch has stored.
C22_BatchBackupAfterCommit ==
    LET queued == {k \in 1..Len(jobs) :
                      jobs[k].tipo = "batch_import" /\ jobs[k].data = lote.tc}
        written == {b \in backups : b.tipo = "batch_import" /\ b.data = lote.tc}
        stored == {lote.results[k].id : k \in 1..Len(lote.results)}
    IN
    /\ (lote.respondido /\ ~lote.ativo) =>
           ((queued # {} \/ written # {}) <=> lote.successCount > 0)
    /\ lote.respondido =>
           /\ \A k \in queued :
                  jobs[k].fase = "write" => stored \subseteq DOMAIN jobs[k].rows
           /\ \A b \in written : stored \subseteq DOMAIN b.demandas

\* C23: the answer of a restore of records with distinct ids and tags is
\* sent when every write has completed: the two counters add up to the
\* number of records, errorCount counts the records that lack a required
\* column, and every other record is in the table under its id.
C23_RestoreCountsSettled ==
    [][(Handles("restore") /\ req'.isArray /\ ItensDistintos(req'.demandas)) =>
          LET items == req'.demandas
              falhos == {k \in 1..Len(items) :
                            NotNullNoDefault(
                                RestoreParams(normalizarDadosDemanda(items[k]), 0))}
          IN /\ resp'.successCount + resp'.errorCount = Len(items)
             /\ resp'.errorCount = Cardinality(falhos)
             /\ \A k \in 1..Len(items) :
                    (k \notin falhos /\ items[k].id # 0) =>
                        items[k].id \in DOMAIN demandas']_vars

\* C24: no step of a restore (queuing the writes, a write, the answer)
\* changes the audit log.
C24_RestoreNoAudit ==
    [][(lote' # lote /\ lote'.op = "restore") => auditoria' = auditoria]_vars

\* a restore is over, it has written over demand 1 at time 2, and the audit
\* log still holds the two rows of the creations
C24_Witness ==
    /\ lote.op = "restore"
    /\ lote.respondido
    /\ ~lote.ativo
    /\ lote.t = 2
    /\ lote.successCount = Len(lote.items)
    /\ 1 \in DOMAIN demandas
    /\ demandas[1].dataAtualizacao = 2
    /\ demandas[1].status = "pendente"
    /\ Len(auditoria) = 2

\* C25: whatever side effects fail, a create, update or delete that changes
\* table demandas is answered success, and one answered success has made
\* its change: the created row is there, the updated row is there under its
\* id, the deleted row is gone. (A create of the first server whose list of
\* assignees is not a list gets no answer with or without a failure.)
C25_SideEffectsSwallowed ==
    [][(/\ falha # {}
        /\ Handles("create") \/ Handles("update") \/ Handles("delete")
        /\ ~(Handles("create") /\ IsString(normalizarDadosDemanda(req'.body).atribuidos)))
          => /\ demandas' # demandas => (resp'.code = 200 /\ resp'.success)
             /\ resp'.code = 200 =>
                    CASE req'.op = "create" ->
                             resp'.demanda.id \in DOMAIN demandas' \ DOMAIN demandas
                      [] req'.op = "update" ->
                             /\ req'.id \in DOMAIN demandas'
                             /\ demandas'[req'.id].dataAtualizacao = now
                      [] req'.op = "delete" -> req'.id \notin DOMAIN demandas']_vars

\* a delete answered success while the audit insert and the backup failed:
\* the row is gone, and there is no audit row and no backup file for it
C25_Witness ==
    /\ req.op = "delete"
    /\ resp.code = 200
    /\ {"auditoria", "backup"} \subseteq falha
    /\ req.id \notin DOMAIN demandas
    /\ \A k \in 1..Len(auditoria) : auditoria[k].acao # "DELETE"
    /\ BackupsOf(backups, "delete") = {}

C27_PushAfterPersist ==
    [][/\ Len(notificacoes') >= Len(notificacoes)
       /\ SubSeq(notificacoes', 1, Len(notificacoes)) = notificacoes
       /\ Len(emitidos') >= Len(emitidos)
       /\ SubSeq(emitidos', 1, Len(emitidos)) = emitidos
       /\ \A k \in (Len(emitidos) + 1)..Len(emitidos') :
              LET p == emitidos'[k] IN
              /\ p.id \in (Len(notificacoes) + 1)..Len(notificacoes')
              /\ p.sala = <<"user", notificacoes'[p.id].usuarioId>>
              /\ p.tipo = notificacoes'[p.id].tipo
              /\ p.tag = notificacoes'[p.id].tag
       /\ \A j, k \in (Len(emitidos) + 1)..Len(emitidos') :
              j < k => emitidos'[j].id < emitidos'[k].id]_vars

\* one notification was inserted and pushed; then the push began to fail
\* and a second notification was inserted without being pushed
C27_Witness ==
    /\ "emit" \in falha
    /\ "notificacao" \notin falha
    /\ Len(notificacoes) = 2
    /\ Len(emitidos) = 1
    /\ emitidos[1].id = 1
    /\ emitidos[1].sala = <<"user", notificacoes[1].usuarioId>>

\* C28: a step that writes a snapshot file leaves every file written before
\* in place, and the name of the file it writes is the name of none of them.
C28_BackupNameFresh ==
    [][backups' # backups =>
          /\ backups \subseteq backups'
          /\ \A b \in backups' \ backups :
                 \A c \in backups : c.name # b.name]_vars

\* C29: a sweep whose deletions all succeed leaves min(n, Retencao) of the
\* n files the timer wrote, and those are the newest of them.
C29_SweepKeepsNewest ==
    [][(req'.op = "sweep" /\ req'.falhou = {} /\ backups' # backups
            /\ backups' \subseteq backups) =>
          LET antes == {b \in backups : b.origem = "timer"}
              depois == {b \in backups' : b.origem = "timer"}
              n == Cardinality(antes)
          IN /\ Cardinality(depois) = IF n < Retencao THEN n ELSE Retencao
             /\ \A b \in depois : \A c \in antes \ depois : c.data < b.data]_vars

\* C30: every file a step removes from the backup directory is a file the
\* timer wrote; a file written for a request stays.
C30_SweepSparesManual ==
    [][\A b \in backups \ backups' : b.origem = "timer"]_vars

\* C31: the process exits only in the callback of a shutdown backup: in the
\* step in which it exits, a queued shutdown backup has its file written or
\* fails.
C31_ExitAfterShutdownBackup ==
    [][(running /\ ~running') =>
          \E k \in 1..Len(jobs) :
              /\ jobs[k].tipo = "shutdown"
              /\ \/ "backup" \in falha
                 \/ /\ jobs[k].fase = "write"
                    /\ \E b \in backups' :
                           /\ b.name = <<"backup", "shutdown", jobs[k].data>>
                           /\ b.demandas = jobs[k].rows]_vars

\* C32: once a shutdown backup has been asked for, the process exits.
C32_ShutdownTerminates ==
    (\E k \in 1..Len(jobs) : jobs[k].tipo = "shutdown") ~> ~running

\* C33: a notification is removed only by a request of its own recipient,
\* and a bulk delete of a user removes every notification of that user.
C33_OnlyRecipientRemoves ==
    [][\A k \in 1..Len(notificacoes) :
          LET row == notificacoes[k]
              removida == row.usuarioId # 0 /\ notificacoes'[k].usuarioId = 0
          IN /\ removida => req'.usuario = row.usuarioId
             /\ (/\ Handles("notificacoes.delete")
                 /\ req'.seg = "limpar-todas"
                 /\ req'.usuario # 0
                 /\ req'.usuarioId = 0
                 /\ row.usuarioId = req'.usuario) => removida]_vars

\* C34: the write of an update whose row is still stored is refused only for
\* a constraint its own parameters break, never because another update wrote
\* the row in between; when it is not refused the request answers success
\* and the stored row is exactly the row of its parameters.
C34_LastWriteWins ==
    [][\A k \in 1..Len(jobs) :
          (/\ jobs[k].fase = "update"
           /\ jobs' = SubSeq(jobs, 1, k - 1) \o SubSeq(jobs, k + 1, Len(jobs))
           /\ jobs[k].id \in DOMAIN demandas)
          => LET j == jobs[k]
                 params == UpdateParams(j.existente,
                               DadosCompletos(j.existente, j.body.body, j.data))
                 recusada == \/ NotNullViolated(params)
                             \/ TagConflicts(demandas, j.id, params.tag) # {}
             IN /\ resp'.success = ~recusada
                /\ ~recusada => demandas'[j.id] = params]_vars

\* two updates of demand 1 read the same row; the one that changes the
\* category wrote first, the one that approves wrote last and its row is the
\* row stored
C34_Witness ==
    /\ req.op = "update"
    /\ resp.success
    /\ Len(auditoria) >= 2
    /\ LET a == auditoria[Len(auditoria) - 1]
           b == auditoria[Len(auditoria)]
       IN /\ a.acao = "UPDATE"
          /\ b.acao = "UPDATE"
          /\ a.registroId = b.registroId
          /\ a.dadosAntigos = b.dadosAntigos
          /\ a.dadosNovos.json.categoria = "ti"
          /\ b.dadosAntigos.json.categoria # "ti"
          /\ b.dadosNovos.json.status = "aprovada"
          /\ b.registroId \in DOMAIN demandas
          /\ demandas[b.registroId].status = "aprovada"
          /\ demandas[b.registroId].categoria # "ti"

\* C35: when two reassign requests of one demand naming different assignees
\* have both answered success, the stored atribuidos holds both assignees.
C35_BothAssigned ==
    [][(/\ req.op = "reassign"
        /\ resp.success
        /\ Len(jobs') < Len(jobs)
        /\ req'.op = "reassign"
        /\ resp'.success
        /\ req'.id = req.id
        /\ req'.novoAtribuidoId # req.novoAtribuidoId
        /\ req.id \in DOMAIN demandas')
       => LET lista == AtribuidosAtuais(demandas'[req.id].atribuidos)
          IN /\ JaAtribuido(lista, req.novoAtribuidoId)
             /\ JaAtribuido(lista, req'.novoAtribuidoId)]_vars

\* C36: the write of an update, reassign or extend-deadline request that
\* executes when the demand is gone answers a failure and appends no audit
\* record.
C36_WriteNeedsDemand ==
    [][\A k \in 1..Len(jobs) :
          (/\ jobs[k].fase \in {"update", "reassign", "extend"}
           /\ jobs' = SubSeq(jobs, 1, k - 1) \o SubSeq(jobs, k + 1, Len(jobs))
           /\ jobs[k].id \notin DOMAIN demandas)
          => /\ ~resp'.success
             /\ auditoria' = auditoria]_vars

\* C37: the before-snapshot of the audit record an update or a delete
\* appends is the demand stored when its write executes.
C37_BeforeSnapshotCurrent ==
    [][\A k \in 1..Len(jobs) :
          (/\ jobs[k].fase \in {"update", "delete"}
           /\ jobs' = SubSeq(jobs, 1, k - 1) \o SubSeq(jobs, k + 1, Len(jobs))
           /\ Len(auditoria') > Len(auditoria))
          => /\ jobs[k].id \in DOMAIN demandas
             /\ auditoria'[Len(auditoria')].dadosAntigos
                    = Snapshot(demandas[jobs[k].id])]_vars

\* C38: a batch import or a restore leaves every stored demand whose id is
\* not an id of the payload stored and unchanged.
C38_ImportFrame ==
    [][((Handles("batch") \/ Handles("restore")) /\ req'.isArray) =>
          \A i \in DOMAIN demandas :
              (\A k \in 1..Len(req'.demandas) : req'.demandas[k].id # i)
                  => /\ i \in DOMAIN demandas'
                     /\ demandas'[i] = demandas[i]]_vars

\* C39: what another request wrote while the batch's transaction was open
\* stays written when the transaction ends, whatever the outcome of COMMIT
\* (its audit rows and the demands it created are still stored); and when
\* the batch has answered no transaction is open on the connection.
C39_BatchTransactionOwn ==
    [][/\ (lote.tx /\ ~lote'.tx) =>
             /\ Len(auditoria') >= Len(auditoria)
             /\ SubSeq(auditoria', 1, Len(auditoria)) = auditoria
             /\ \A k \in (Len(lote.salvo.log) + 1)..Len(auditoria) :
                    (auditoria[k].acao = "CREATE"
                        /\ auditoria[k].registroId \in DOMAIN demandas)
                    => auditoria[k].registroId \in DOMAIN demandas'
       /\ (Handles("batch") /\ lote'.respondido) => ~lote'.tx]_vars

====
